---- MODULE Spec2Model ----
(***************************************************************************)
(* DocuGuard: the conflict lifecycle of src/App.tsx as a state machine.    *)
(*                                                                         *)
(* The React state of App (documents, conflicts, history, isAnalyzing,     *)
(* notification, userProfile) is the state; every handler of App is one    *)
(* action, and an async handler is one action per stretch of code between  *)
(* two awaits (the call up to the first await, the continuation after the  *)
(* files were read, the settling of each analyzer promise together with    *)
(* the continuation of Promise.all that it releases).                      *)
(*                                                                         *)
(* crypto.randomUUID() is a counter (nextId): every id is fresh.           *)
(* Strings that the code only carries along (excerpts, explanation,        *)
(* document content, event ids and timestamps) are opaque tokens.          *)
(* activeView / activeDocumentId (navigation) are not part of the model.   *)
(***************************************************************************)
EXTENDS Integers, Sequences, FiniteSets, TLC

VARIABLES
    documents,      \* App.tsx:91   Document[]
    conflicts,      \* App.tsx:92   Conflict[]
    history,        \* App.tsx:93   HistoryEvent[], newest first
    userProfile,    \* App.tsx:94   UserProfile
    reportsGeneratedCount, \* App.tsx:103
    isAnalyzing,    \* App.tsx:107
    notification,   \* App.tsx:108  {message, type} | null
    run,            \* the suspended async handler (its closure and position)
    nextId,         \* the next value of crypto.randomUUID()
    lastOp,         \* auxiliary: the handler call that produced this state
    storage,        \* App.tsx:16   the localStorage item 'docuGuardState'
    saveTimer,      \* App.tsx:134  the timeout of the save effect and its stateToSave
    boot,           \* auxiliary: is App mounted, and the item loadState read
    pgInput,        \* SpecPairs only: the newDocuments and documents given to the pair loops
    pgPairs,        \* SpecPairs only: the pairsToAnalyze they produced
    gInput,         \* SpecGraph only: the props of DocumentGraphViewer
    gOutput,        \* SpecGraph only: what its graph builder returned for them
    transform,      \* DocumentGraphViewer.tsx:69  {x, y, k}
    isPanning,      \* DocumentGraphViewer.tsx:70
    panStart,       \* DocumentGraphViewer.tsx:71  {x, y}
    hoveredNodeId,  \* DocumentGraphViewer.tsx:68
    tooltip,        \* DocumentGraphViewer.tsx:72
    pointer,        \* where the mouse is (clientX, clientY)
    viewEvents      \* SpecView only: the mouse moves and wheel events counted

vars == <<documents, conflicts, history, userProfile, reportsGeneratedCount, isAnalyzing,
          notification, run, nextId, lastOp, storage, saveTimer, boot,
          pgInput, pgPairs, gInput, gOutput,
          transform, isPanning, panStart, hoveredNodeId, tooltip, pointer, viewEvents>>

pgVars == <<pgInput, pgPairs>>

graphVars == <<gInput, gOutput>>

\* the variables of the specifications of single components, which the
\* handlers of App leave alone
viewVars == <<transform, isPanning, panStart, hoveredNodeId, tooltip, pointer, viewEvents>>

sideVars == <<pgVars, graphVars, viewVars>>

\* what the save effect persists, and when
storeVars == <<storage, saveTimer, boot>>

appVars == <<documents, conflicts, history, userProfile, reportsGeneratedCount, isAnalyzing,
             notification, run, nextId, lastOp, storeVars>>

(***************************************************************************)
(* Bounds of the model.                                                    *)
(***************************************************************************)
\* handler calls the user makes in one session (resolve and analysis requests)
MaxCalls == 2
\* files handed to one handleStartAnalysis call
MaxFiles == 2
\* analyzer calls one run issues
MaxPairs == 5
\* candidates the analyzer calls of one run return, all together
MaxRunCandidates == 1
\* SpecPairs: new documents, existing documents, and the ids they draw from
MaxNew == 3
MaxOld == 2
PairIdPool == 5
\* SpecGraph: conflicts handed to the graph builder
MaxGraphConflicts == 3
\* SpecView: mouse moves, and wheel events after the first move
MaxMoves == 1
MaxWheel == 1
\* SpecPan: mouse moves and wheel events
MaxPanMoves == 3
MaxPanWheel == 2
\* SpecLoad: the report counter of a stored snapshot
MaxStoredReports == 1
\* SpecHover: conflicts of the store the viewer draws
MaxHoverConflicts == 2

(***************************************************************************)
(* types.ts                                                                *)
(***************************************************************************)
Null == "null"
\* types.ts:3   'accept_doc1' | 'accept_doc2' | 'ignore' | null
Resolution == {"accept_doc1", "accept_doc2", "ignore", Null}
\* types.ts:17
Severity == {"High", "Medium", "Low"}
\* types.ts:18
Status == {"unresolved", "resolved", "ignored"}

\* a Document (types.ts:5-9)
Doc(id, title) == [id |-> id, title |-> title, content |-> "text"]

\* a File of the browser: name and MIME type
TextFile == [name |-> "a.txt", type |-> "text/plain"]
PdfFile == [name |-> "c.pdf", type |-> "application/pdf"]
FilePool == {TextFile, PdfFile}

RECURSIVE SeqsUpTo(_, _)
SeqsUpTo(S, n) ==
    IF n = 0 THEN {<<>>}
    ELSE LET shorter == SeqsUpTo(S, n - 1)
         IN  shorter \cup {Append(s, x) : s \in shorter, x \in S}

\* the ids no document and no conflict carries
UnknownId == 0

(***************************************************************************)
(* Helpers over sequences                                                  *)
(***************************************************************************)
Range(s) == {s[i] : i \in DOMAIN s}

RECURSIVE Flat(_)
\* Array.prototype.flat() of an array of arrays
Flat(ss) == IF ss = <<>> THEN <<>> ELSE Head(ss) \o Flat(Tail(ss))

\* the value of a search that found nothing
undefined == [undefined |-> TRUE]

\* Array.prototype.find: the first match, or undefined
Find(s, Match(_)) ==
    LET hits == {i \in DOMAIN s : Match(s[i])}
    IN  IF hits = {} THEN undefined
        ELSE s[CHOOSE i \in hits : \A j \in hits : i <= j]

\* Array.prototype.includes on a two-element documentIds tuple
Includes(pair, id) == \E k \in DOMAIN pair : pair[k] = id

(***************************************************************************)
(* addHistoryEvent / showNotification                                      *)
(***************************************************************************)
\* A history event.  `run` is auxiliary: the number of the analysis run the
\* event belongs to (0 for events of no run); the code's event carries a
\* random id and a timestamp instead.
Event(type, details, r) == [type |-> type, details |-> details, run |-> r]

addHistoryEventAtEnd(prev, ev) == prev \o <<ev>>

addHistoryEventOverHead(prev, ev) ==
    <<ev>> \o (IF prev = <<>> THEN <<>> ELSE Tail(prev))

\* setHistory(prev => [newEvent, ...prev])
addHistoryEvent(prev, ev) == <<ev>> \o prev

\* notification === null
NoNotification == [message |-> "", type |-> "none"]

\* showNotification: setNotification only when notifications are enabled
showNotification(prev, message, type) ==
    IF userProfile.notificationsEnabled
    THEN [message |-> message, type |-> type]
    ELSE prev

(***************************************************************************)
(* Pair generation of handleStartAnalysis                                  *)
(***************************************************************************)
RECURSIVE PushEachOld(_, _, _)
\* documents.forEach(oldDoc => pairsToAnalyze.push([newDoc, oldDoc]))
PushEachOld(pairs, newDoc, docs) ==
    IF docs = <<>> THEN pairs
    ELSE PushEachOld(Append(pairs, <<newDoc, Head(docs)>>), newDoc, Tail(docs))

RECURSIVE ForEachNew(_, _, _)
\* newDocuments.forEach(newDoc => ...)
ForEachNew(pairs, newDocs, docs) ==
    IF newDocs = <<>> THEN pairs
    ELSE ForEachNew(PushEachOld(pairs, Head(newDocs), docs), Tail(newDocs), docs)

InnerStartSelf(i) == i

\* for (let j = i + 1; ...): the first j of the inner loop (1-based here)
InnerStart(i) == i + 1

RECURSIVE InnerLoop(_, _, _, _)
\* for (j; j < newDocuments.length; j++) pairsToAnalyze.push([new[i], new[j]])
InnerLoop(pairs, newDocs, i, j) ==
    IF j > Len(newDocs) THEN pairs
    ELSE InnerLoop(Append(pairs, <<newDocs[i], newDocs[j]>>), newDocs, i, j + 1)

RECURSIVE OuterLoop(_, _, _)
\* for (let i = 0; i < newDocuments.length; i++)
OuterLoop(pairs, newDocs, i) ==
    IF i > Len(newDocs) THEN pairs
    ELSE OuterLoop(InnerLoop(pairs, newDocs, i, InnerStart(i)), newDocs, i + 1)

\* pairsToAnalyze as lines 213-221 build it
generatePairs(newDocs, docs) ==
    OuterLoop(ForEachNew(<<>>, newDocs, docs), newDocs, 1)

(***************************************************************************)
(* The analyzer (services/geminiService, consumed as a black box): for two *)
(* documents it returns zero or more candidates that carry the ids and the *)
(* titles of the two documents it was given, or the call fails.            *)
(***************************************************************************)
findConflictsBetweenDocuments(docA, docB, sevs) ==
    [k \in DOMAIN sevs |->
        [documentIds    |-> <<docA.id, docB.id>>,
         documentTitles |-> <<docA.title, docB.title>>,
         excerpts       |-> <<"excerpt1", "excerpt2">>,
         explanation    |-> "explanation",
         severity       |-> sevs[k]]]

\* the severities the analyzer is seen to assign in this model; the seed
\* conflicts carry the other two
AnalyzerSeverity == {"Medium"}

\* what one analyzer call may return: the severities of its candidates
AnalyzerOutputs == SeqsUpTo(AnalyzerSeverity, MaxRunCandidates)

\* a promise of an analyzer call: pending, or fulfilled with its candidates
Pending == [settled |-> FALSE, value |-> <<>>]

Fulfilled(found) == [settled |-> TRUE, value |-> found]

(***************************************************************************)
(* Persistence (App.tsx:16-136).  A JSON value is a tagged value; the item *)
(* of localStorage is absent, a text JSON.parse rejects, or the text of a  *)
(* JSON value.                                                             *)
(***************************************************************************)
\* (one field for the content of each type: a of an array, o of an object,
\* n of a number, s of a string)
NoProperties == [none |-> TRUE]
JNull == [t |-> "null", a |-> <<>>, o |-> NoProperties, n |-> 0, s |-> ""]
JArray(v) == [JNull EXCEPT !.t = "array", !.a = v]
JObject(v) == [JNull EXCEPT !.t = "object", !.o = v]
JNumber(v) == [JNull EXCEPT !.t = "number", !.n = v]
JString(v) == [JNull EXCEPT !.t = "string", !.s = v]
\* the value of a property an object does not have
JUndefined == [JNull EXCEPT !.t = "undefined"]

\* the value a JSON value stands for
valueOf(json) ==
    CASE json.t = "array" -> json.a
      [] json.t = "object" -> json.o
      [] json.t = "number" -> json.n
      [] json.t = "string" -> json.s
      [] OTHER -> json.t

\* localStorage.getItem(...) === null
NoItem == [item |-> "none", json |-> JNull]
\* a text that is no JSON
Unparseable == [item |-> "unparseable", json |-> JNull]
Text(json) == [item |-> "text", json |-> json]

\* stateToSave (lines 111-117)
stateToSave ==
    [documents |-> documents, conflicts |-> conflicts, history |-> history,
     userProfile |-> userProfile, reportsGeneratedCount |-> reportsGeneratedCount]

\* JSON.stringify(stateToSave)
stringify(st) ==
    Text(JObject([documents |-> JArray(st.documents),
                  conflicts |-> JArray(st.conflicts),
                  history |-> JArray(st.history),
                  userProfile |-> JObject(st.userProfile),
                  reportsGeneratedCount |-> JNumber(st.reportsGeneratedCount)]))

\* no timeout of the save effect is pending
NoTimer == [pending |-> FALSE, state |-> <<>>, logged |-> "none"]

Armed(st) == [pending |-> TRUE, state |-> st, logged |-> "none"]

debounceKeepPending(prev, st) == IF prev.pending THEN prev ELSE Armed(st)

\* the save effect runs again (lines 134-135): the cleanup of the previous
\* run clears its timeout, then a new timeout is set for the new stateToSave
debounce(prev, st) == Armed(st)

\* The save effect after a handler (lines 111-136): stateToSave is made anew
\* when one of its five parts is a new value or a new array (setterCalled:
\* the handler has set a part to a new array of the same contents), and the
\* effect runs again when stateToSave is new.
saveEffect(setterCalled) ==
    /\ saveTimer' = IF setterCalled \/ stateToSave' # stateToSave
                    THEN debounce(saveTimer, stateToSave')
                    ELSE saveTimer
    /\ UNCHANGED <<storage, boot>>

\* App is mounted, from the item loadState read
Booted(item) == [mounted |-> TRUE, item |-> item]

(***************************************************************************)
(* Initial state: the seed data (constants.ts) and the defaults of App.    *)
(***************************************************************************)
initialDocuments == <<Doc(1, "A"), Doc(2, "B")>>

initialConflicts ==
    << [id |-> 3, documentIds |-> <<1, 2>>, documentTitles |-> <<"A", "B">>,
        excerpts |-> <<"excerpt1", "excerpt2">>, explanation |-> "explanation",
        severity |-> "High", status |-> "unresolved", resolution |-> Null],
       [id |-> 4, documentIds |-> <<2, 1>>, documentTitles |-> <<"B", "A">>,
        excerpts |-> <<"excerpt1", "excerpt2">>, explanation |-> "explanation",
        severity |-> "Low", status |-> "resolved", resolution |-> "accept_doc1"] >>

\* the first id crypto.randomUUID() hands out after the seed data
FirstFreshId == 5

\* no async handler is suspended; `no` numbers the runs (auxiliary)
IdleRun(no) ==
    [pc |-> "idle", mode |-> "none", no |-> no, documents |-> <<>>,
     textFiles |-> <<>>, pairs |-> <<>>, results |-> <<>>,
     doc1Id |-> UnknownId, doc2Id |-> UnknownId]

\* lastOp: the handler (or continuation) that ran last, its arguments, the
\* number n of handler calls so far, and for the end of a run the candidates
\* its analyzer calls had returned
NoOp(n) == [op |-> "none", conflictId |-> UnknownId, resolution |-> Null,
            found |-> FALSE, n |-> n, returned |-> <<>>]

\* the profile of lines 95-101
defaultProfile ==
    [name |-> "Guest User", notificationsEnabled |-> TRUE, theme |-> "dark"]

\* the React state of App when no snapshot was loaded (lines 91-108)
AppStateInit ==
    /\ documents = initialDocuments
    /\ conflicts = initialConflicts
    /\ history = <<>>
    /\ userProfile = defaultProfile
    /\ reportsGeneratedCount = 0
    /\ isAnalyzing = FALSE
    /\ notification = NoNotification
    /\ run = IdleRun(0)
    /\ nextId = FirstFreshId
    /\ lastOp = NoOp(0)

\* a browser with no stored item: App is mounted from the defaults and its
\* save effect has set its first timeout
AppInit ==
    /\ AppStateInit
    /\ storage = NoItem
    /\ saveTimer = Armed(stateToSave)
    /\ boot = Booted(NoItem)

NoPairInput == [newDocuments |-> <<>>, documents |-> <<>>, done |-> FALSE]

(***************************************************************************)
(* The numbers of the viewport (DocumentGraphViewer.tsx:69, 135-176).      *)
(* The code computes in floating point; the model computes exactly.  A     *)
(* scale is a product of powers of 5 and of 1.1 (every scale the wheel can *)
(* produce from 1 with the factor 1.1 and the bounds 0.2 and 5 is one);    *)
(* a coordinate is a sum of such products with integer coefficients.       *)
(***************************************************************************)
\* the scale 5^b * 1.1^c
Scale(b, c) == <<b, c>>

ScaleOne == Scale(0, 0)

\* Math.max(0.2, ...): the lower bound 0.2 = 5^-1
MinScale == Scale(-1, 0)

\* an upper bound of 25 = 5^2
MaxScaleWider == Scale(2, 0)

\* Math.min(..., 5): the upper bound
MaxScale == Scale(1, 0)

ScaleTimes(k, m) == <<k[1] + m[1], k[2] + m[2]>>

ScaleOver(k, m) == <<k[1] - m[1], k[2] - m[2]>>

\* const scaleAmount = 1.1
scaleAmount == Scale(0, 1)

\* the value of a scale in millionths, rounded down at every factor: used for
\* comparisons only, where the scales that differ from a bound are more than
\* a hundredth away from it
Millionths == 1000000

RECURSIVE ApproxTimes(_, _)
ApproxTimes(v, c) ==
    IF c = 0 THEN v
    ELSE IF c > 0 THEN ApproxTimes((v * 11) \div 10, c - 1)
    ELSE ApproxTimes((v * 10) \div 11, c + 1)

RECURSIVE ApproxPow5(_, _)
ApproxPow5(v, b) ==
    IF b = 0 THEN v
    ELSE IF b > 0 THEN ApproxPow5(v * 5, b - 1)
    ELSE ApproxPow5(v \div 5, b + 1)

Approx(k) == ApproxTimes(ApproxPow5(Millionths, k[1]), k[2])

\* k < m and k > m for two scales
ScaleLess(k, m) == k # m /\ Approx(k) < Approx(m)

\* a coordinate: the integer coefficient of every scale that has one
Coord(n) == [t \in (IF n = 0 THEN {} ELSE {ScaleOne}) |-> n]

Coef(u, t) == IF t \in DOMAIN u THEN u[t] ELSE 0

CoordPlus(u, v) ==
    LET D == {t \in DOMAIN u \cup DOMAIN v : Coef(u, t) + Coef(v, t) # 0}
    IN  [t \in D |-> Coef(u, t) + Coef(v, t)]

CoordMinus(u, v) == CoordPlus(u, [t \in DOMAIN v |-> 0 - v[t]])

\* u * m and u / m for a coordinate u and a scale m
CoordTimes(u, m) ==
    [t \in {ScaleTimes(w, m) : w \in DOMAIN u} |-> u[ScaleOver(t, m)]]

CoordOver(u, m) == CoordTimes(u, ScaleOver(ScaleOne, m))

(***************************************************************************)
(* The viewport of DocumentGraphViewer as constructed (lines 68-72)        *)
(***************************************************************************)
\* clientX, clientY of a mouse event
Point(x, y) == [x |-> x, y |-> y]

\* the places of the mouse the model follows; it starts at the first
PointerStart == Point(3, 2)

PointerPositions == {PointerStart, Point(5, 6)}

\* hoveredNodeId === null: the id of no node
NoNodeId == UnknownId

\* tooltip === null
NoTooltip == [contentLines |-> <<>>]

ViewInit ==
    /\ hoveredNodeId = NoNodeId
    /\ transform = [x |-> Coord(0), y |-> Coord(0), k |-> ScaleOne]
    /\ isPanning = FALSE
    /\ panStart = Point(0, 0)
    /\ tooltip = NoTooltip
    /\ pointer = PointerStart
    /\ viewEvents = [moves |-> 0, wheels |-> 0]

\* the component specifications at rest
PairsIdle ==
    /\ pgInput = NoPairInput
    /\ pgPairs = <<>>

NoGraph == [nodes |-> <<>>, edges |-> <<>>, nodeConflictCounts |-> <<>>]

GraphIdle ==
    /\ gInput = [documents |-> <<>>, conflicts |-> <<>>, done |-> FALSE]
    /\ gOutput = NoGraph

Init ==
    /\ AppInit
    /\ PairsIdle
    /\ GraphIdle
    /\ ViewInit

(***************************************************************************)
(* handleResolveConflict (App.tsx:305-319)                                 *)
(***************************************************************************)
\* status: resolution === 'ignore' ? 'ignored' : 'resolved'
statusFor(resolution) == IF resolution = "ignore" THEN "ignored" ELSE "resolved"

resolveConflictOnce(prev, conflictId, resolution) ==
    [i \in DOMAIN prev |->
        IF prev[i].id = conflictId /\ prev[i].status = "unresolved"
        THEN [prev[i] EXCEPT !.status = statusFor(resolution),
                             !.resolution = resolution]
        ELSE prev[i]]

resolveConflictDowngrade(prev, conflictId, resolution) ==
    [i \in DOMAIN prev |->
        IF prev[i].id = conflictId
        THEN [prev[i] EXCEPT !.status = statusFor(resolution),
                             !.resolution = resolution,
                             !.severity = "Low"]
        ELSE prev[i]]

\* prev.map(c => c.id === conflictId ? {...c, status, resolution} : c)
resolveConflict(prev, conflictId, resolution) ==
    [i \in DOMAIN prev |->
        IF prev[i].id = conflictId
        THEN [prev[i] EXCEPT !.status = statusFor(resolution),
                             !.resolution = resolution]
        ELSE prev[i]]

resolveHistoryAlways(prev, conflict) ==
    addHistoryEvent(prev, Event("conflict_resolved", <<"undefined", "undefined">>, 0))

resolveHistorySilent(prev, conflict) == prev

\* the history after the call: an event only if conflicts.find(...) found one
resolveHistory(prev, conflict) ==
    IF conflict # undefined
    THEN addHistoryEvent(prev, Event("conflict_resolved", conflict.documentTitles, 0))
    ELSE prev

handleResolveConflict(conflictId, resolution) ==
    LET conflict == Find(conflicts, LAMBDA c : c.id = conflictId) IN
    /\ conflicts' = resolveConflict(conflicts, conflictId, resolution)
    /\ history' = resolveHistory(history, conflict)
    /\ notification' = showNotification(notification, "Conflict status updated.", "success")
    /\ lastOp' = [NoOp(lastOp.n + 1) EXCEPT !.op = "resolve",
                                             !.conflictId = conflictId,
                                             !.resolution = resolution,
                                             !.found = (conflict # undefined)]
    /\ UNCHANGED <<documents, userProfile, reportsGeneratedCount, isAnalyzing, run, nextId>>

\* the ids a caller can name: every conflict of the store, and an id of none
ConflictIdInputs == {conflicts[i].id : i \in DOMAIN conflicts} \cup {UnknownId}

Resolve ==
    /\ lastOp.n < MaxCalls
    /\ \E conflictId \in ConflictIdInputs, resolution \in Resolution :
            handleResolveConflict(conflictId, resolution)
    /\ saveEffect(TRUE)
    /\ UNCHANGED sideVars

(***************************************************************************)
(* handleUpdateProfile (App.tsx:321-325), handleGenerateReport (334-337)   *)
(***************************************************************************)
\* the profiles the Settings form can submit: the notifications toggle is
\* the field the model follows
ProfileInputs ==
    [name : {"Guest User"}, notificationsEnabled : BOOLEAN, theme : {"dark"}]

\* showNotification is the callback of the render before the update: it
\* reads the notificationsEnabled of the profile being replaced
handleUpdateProfile(newProfile) ==
    /\ userProfile' = newProfile
    /\ notification' = showNotification(notification, "Profile updated successfully!", "success")
    /\ history' = addHistoryEvent(history, Event("profile_updated", <<>>, 0))
    /\ lastOp' = [NoOp(lastOp.n + 1) EXCEPT !.op = "updateProfile"]
    /\ UNCHANGED <<documents, conflicts, reportsGeneratedCount, isAnalyzing, run, nextId>>

UpdateProfile ==
    /\ lastOp.n < MaxCalls
    /\ \E newProfile \in ProfileInputs : handleUpdateProfile(newProfile)
    /\ saveEffect(TRUE)
    /\ UNCHANGED sideVars

handleGenerateReport ==
    /\ reportsGeneratedCount' = reportsGeneratedCount + 1
    /\ history' = addHistoryEvent(history, Event("report_generated", <<>>, 0))
    /\ lastOp' = [NoOp(lastOp.n + 1) EXCEPT !.op = "generateReport"]
    /\ UNCHANGED <<documents, conflicts, userProfile, isAnalyzing, notification, run, nextId>>

\* ConflictInbox.tsx:91: Export Report is disabled while the filtered list is
\* empty; with the filters set to All that is the empty conflict list
exportEnabled == Len(conflicts) > 0

GenerateReport ==
    /\ lastOp.n < MaxCalls
    /\ exportEnabled
    /\ handleGenerateReport
    /\ saveEffect(TRUE)
    /\ UNCHANGED sideVars

(***************************************************************************)
(* handleSaveDocument (App.tsx:299-303)                                    *)
(***************************************************************************)
saveDocumentAll(docs, id, content) ==
    [i \in DOMAIN docs |-> [docs[i] EXCEPT !.content = content]]

\* docs.map(doc => doc.id === id ? {...doc, content} : doc)
saveDocument(docs, id, content) ==
    [i \in DOMAIN docs |->
        IF docs[i].id = id THEN [docs[i] EXCEPT !.content = content] ELSE docs[i]]

handleSaveDocument(id, content) ==
    /\ documents' = saveDocument(documents, id, content)
    /\ notification' = showNotification(notification, "Document saved successfully!", "success")
    /\ history' = addHistoryEvent(history, Event("document_saved", <<id>>, 0))
    /\ lastOp' = [NoOp(lastOp.n + 1) EXCEPT !.op = "saveDocument"]
    /\ UNCHANGED <<conflicts, userProfile, reportsGeneratedCount, isAnalyzing, run, nextId>>

\* what the editor's textarea may hold when Save is pressed
EditorContents == {"edited"}

\* DocumentEditor handleSave: onSave(document.id, content) for the document
\* that is open, one of the store
SaveDocument ==
    /\ lastOp.n < MaxCalls
    /\ \E d \in DOMAIN documents, content \in EditorContents :
            handleSaveDocument(documents[d].id, content)
    /\ saveEffect(TRUE)
    /\ UNCHANGED sideVars

(***************************************************************************)
(* The merge of an analysis run                                            *)
(***************************************************************************)
\* foundFromApi.map(c => ({...c, id: crypto.randomUUID(), status, resolution}))
formatConflicts(found, firstId) ==
    [k \in DOMAIN found |->
        [id |-> firstId + k - 1, status |-> "unresolved", resolution |-> Null]
            @@ found[k]]

inPairsToAnalyzeEither(oldConflict, pairs) ==
    \E p \in DOMAIN pairs :
        \/ Includes(oldConflict.documentIds, pairs[p][1].id)
        \/ Includes(oldConflict.documentIds, pairs[p][2].id)

\* the filter of App.tsx:235-239: does oldConflict belong to a pair of the run
inPairsToAnalyze(oldConflict, pairs) ==
    \E p \in DOMAIN pairs :
        /\ Includes(oldConflict.documentIds, pairs[p][1].id)
        /\ Includes(oldConflict.documentIds, pairs[p][2].id)

\* setConflicts(prev => [...others, ...formattedConflicts]) of handleStartAnalysis
mergeBatch(prev, pairs, formattedConflicts) ==
    SelectSeq(prev, LAMBDA old : ~inPairsToAnalyze(old, pairs)) \o formattedConflicts

isPairConflictOneOrder(c, doc1Id, doc2Id) ==
    c.documentIds[1] = doc1Id /\ c.documentIds[2] = doc2Id

\* the filter of App.tsx:280-283: is c a conflict of (doc1Id, doc2Id), either order
isPairConflict(c, doc1Id, doc2Id) ==
    \/ (c.documentIds[1] = doc1Id /\ c.documentIds[2] = doc2Id)
    \/ (c.documentIds[1] = doc2Id /\ c.documentIds[2] = doc1Id)

\* setConflicts(prev => [...others, ...newConflicts]) of handleAnalyzePair
mergePair(prev, doc1Id, doc2Id, newConflicts) ==
    SelectSeq(prev, LAMBDA c : ~isPairConflict(c, doc1Id, doc2Id)) \o newConflicts

\* the conflict list a run commits once its analyzer calls have all returned
mergeRun(prev, r, formatted) ==
    IF r.mode = "batch"
    THEN mergeBatch(prev, r.pairs, formatted)
    ELSE mergePair(prev, r.doc1Id, r.doc2Id, formatted)

conflictsAfterFailurePartial(prev, r, settled) ==
    mergeRun(prev, r, formatConflicts(settled, 100))

\* the conflict list after a run whose catch block ran
conflictsAfterFailure(prev, r, settled) == prev

documentsAfterFailureRolledBack(prev, r) ==
    SelectSeq(prev, LAMBDA d : d \in Range(r.documents))

\* the document list after a run whose catch block ran: no setDocuments there
documentsAfterFailure(prev, r) == prev

finallyIsAnalyzingKept(prev) == prev

\* finally { setIsAnalyzing(false) } (250-252, 294-296)
finallyIsAnalyzing(prev) == FALSE

\* Promise.all fulfils when no call of the run is pending any more
allSettled(results) == \A i \in DOMAIN results : results[i].settled

\* the candidates the calls that have returned so far brought back
Returned(results) == Flat([i \in DOMAIN results |-> results[i].value])

(***************************************************************************)
(* The UI gates of the analysis requests                                   *)
(***************************************************************************)
analysisGateOpen == TRUE

\* Dashboard.tsx:107, DocumentEditor :157, AnalysisModal :271:
\* the buttons are disabled while isAnalyzing
analysisGate == ~isAnalyzing

isAnyDocument(documentId, targetId) == TRUE

\* DocumentEditor: otherDocuments = allDocuments.filter(d => d.id !== document.id)
isOtherDocument(documentId, targetId) == targetId # documentId

(***************************************************************************)
(* handleStartAnalysis (App.tsx:180-253)                                   *)
(***************************************************************************)
textFilesOf(files) == SelectSeq(files, LAMBDA file : file.type = "text/plain")

\* lines 181-184: fewer than two files, nothing but a notification
StartAnalysisTooFewFiles(files) ==
    /\ Len(files) < 2
    /\ notification' = showNotification(notification,
            "Please select at least two files to analyze.", "error")
    /\ lastOp' = [NoOp(lastOp.n + 1) EXCEPT !.op = "startAnalysis"]
    /\ UNCHANGED <<documents, conflicts, history, userProfile, reportsGeneratedCount, isAnalyzing, run, nextId>>

\* lines 185-199 with the finally of 250-252: fewer than two .txt files
StartAnalysisTooFewTextFiles(files) ==
    /\ Len(files) >= 2
    /\ Len(textFilesOf(files)) < 2
    /\ history' = addHistoryEvent(history,
            Event("analysis_started", <<Len(files)>>, run.no + 1))
    /\ notification' = showNotification(notification,
            "At least two .txt files are required for analysis.", "error")
    /\ isAnalyzing' = finallyIsAnalyzing(TRUE)
    /\ run' = IdleRun(run.no + 1)
    /\ lastOp' = [NoOp(lastOp.n + 1) EXCEPT !.op = "startAnalysis"]
    /\ UNCHANGED <<documents, conflicts, userProfile, reportsGeneratedCount, nextId>>

\* lines 185-205: up to the await of the file contents
StartAnalysisRead(files) ==
    LET textFiles == textFilesOf(files) IN
    /\ Len(files) >= 2
    /\ Len(textFiles) >= 2
    /\ Len(generatePairs(textFiles, documents)) <= MaxPairs
    /\ isAnalyzing' = TRUE
    /\ history' = addHistoryEvent(history,
            Event("analysis_started", <<Len(files)>>, run.no + 1))
    /\ notification' =
            IF Len(textFiles) < Len(files)
            THEN showNotification(notification,
                    "Some files were not .txt and were ignored.", "error")
            ELSE showNotification(notification,
                    "Analysis started. Reading files...", "success")
    /\ run' = [IdleRun(run.no + 1) EXCEPT !.pc = "reading", !.mode = "batch",
                                          !.documents = documents,
                                          !.textFiles = textFiles]
    /\ lastOp' = [NoOp(lastOp.n + 1) EXCEPT !.op = "startAnalysis"]
    /\ UNCHANGED <<documents, conflicts, userProfile, reportsGeneratedCount, nextId>>

handleStartAnalysis(files) ==
    \/ StartAnalysisTooFewFiles(files)
    \/ StartAnalysisTooFewTextFiles(files)
    \/ StartAnalysisRead(files)

StartAnalysis ==
    /\ lastOp.n < MaxCalls
    /\ \E files \in SeqsUpTo(FilePool, MaxFiles) :
            /\ analysisGate
            /\ handleStartAnalysis(files)
    /\ saveEffect(FALSE)
    /\ UNCHANGED sideVars

\* the catch and finally blocks of both handlers (246-252, 290-296)
AnalysisFailed(message) ==
    /\ conflicts' = conflictsAfterFailure(conflicts, run, Returned(run.results))
    /\ notification' = showNotification(notification, message, "error")
    /\ history' = addHistoryEvent(history,
            Event("analysis_error",
                  IF run.mode = "batch" THEN <<>>
                  ELSE <<run.pairs[1][1].title, run.pairs[1][2].title>>,
                  run.no))
    /\ documents' = documentsAfterFailure(documents, run)
    /\ isAnalyzing' = finallyIsAnalyzing(isAnalyzing)
    /\ run' = IdleRun(run.no)
    /\ lastOp' = [NoOp(lastOp.n) EXCEPT !.op = "analysisFailed",
                                         !.returned = Returned(run.results)]
    /\ UNCHANGED <<userProfile, reportsGeneratedCount, nextId>>

\* lines 201-225: the files were read; ingest them and issue one call per pair
FilesRead ==
    /\ run.pc = "reading"
    /\ LET n == Len(run.textFiles)
           newDocuments == [k \in 1..n |-> Doc(nextId + k - 1, run.textFiles[k].name)]
           pairsToAnalyze == generatePairs(newDocuments, run.documents)
       IN  /\ documents' = documents \o newDocuments
           /\ nextId' = nextId + n
           /\ run' = [run EXCEPT !.pc = "analyzing",
                                 !.pairs = pairsToAnalyze,
                                 !.results = [p \in DOMAIN pairsToAnalyze |-> Pending]]
    /\ notification' = showNotification(notification,
            "Documents loaded. Now finding conflicts...", "success")
    /\ lastOp' = [NoOp(lastOp.n) EXCEPT !.op = "filesRead"]
    /\ UNCHANGED <<conflicts, history, userProfile, reportsGeneratedCount, isAnalyzing>>
    /\ saveEffect(TRUE)
    /\ UNCHANGED sideVars

\* a file.text() promise rejects: Promise.all rejects, the catch block runs
FilesReadFail ==
    /\ run.pc = "reading"
    /\ AnalysisFailed("An error occurred during analysis. Please check the console.")
    /\ saveEffect(TRUE)
    /\ UNCHANGED sideVars

(***************************************************************************)
(* handleAnalyzePair (App.tsx:255-297)                                     *)
(***************************************************************************)
\* lines 256-266: a document was not found
AnalyzePairNotFound(doc1Id, doc2Id) ==
    LET doc1 == Find(documents, LAMBDA d : d.id = doc1Id)
        doc2 == Find(documents, LAMBDA d : d.id = doc2Id)
    IN  /\ (doc1 = undefined \/ doc2 = undefined)
        /\ notification' = showNotification(notification,
                "Could not find documents to analyze.", "error")
        /\ isAnalyzing' = FALSE
        /\ lastOp' = [NoOp(lastOp.n + 1) EXCEPT !.op = "analyzePair"]
        /\ UNCHANGED <<documents, conflicts, history, userProfile, reportsGeneratedCount, run, nextId>>

\* lines 256-271: up to the await of the analyzer call
AnalyzePairCall(doc1Id, doc2Id) ==
    LET doc1 == Find(documents, LAMBDA d : d.id = doc1Id)
        doc2 == Find(documents, LAMBDA d : d.id = doc2Id)
    IN  /\ doc1 # undefined
        /\ doc2 # undefined
            /\ isAnalyzing' = TRUE
        /\ notification' = showNotification(notification,
                "Starting analysis between two documents...", "success")
        /\ history' = addHistoryEvent(history,
                Event("analysis_started", <<doc1.title, doc2.title>>, run.no + 1))
        /\ run' = [IdleRun(run.no + 1) EXCEPT !.pc = "analyzing", !.mode = "pair",
                                              !.documents = documents,
                                              !.pairs = << <<doc1, doc2>> >>,
                                              !.results = <<Pending>>,
                                              !.doc1Id = doc1Id,
                                              !.doc2Id = doc2Id]
        /\ lastOp' = [NoOp(lastOp.n + 1) EXCEPT !.op = "analyzePair"]
        /\ UNCHANGED <<documents, conflicts, userProfile, reportsGeneratedCount, nextId>>

handleAnalyzePair(doc1Id, doc2Id) ==
    \/ AnalyzePairNotFound(doc1Id, doc2Id)
    \/ AnalyzePairCall(doc1Id, doc2Id)

\* the ids a caller can name: every document of the store, and an id of none
DocumentIdInputs == {documents[i].id : i \in DOMAIN documents} \cup {UnknownId}

AnalyzePair ==
    /\ lastOp.n < MaxCalls
    /\ \E doc1Id \in DocumentIdInputs, doc2Id \in DocumentIdInputs :
            /\ analysisGate
            /\ isOtherDocument(doc1Id, doc2Id)
            /\ handleAnalyzePair(doc1Id, doc2Id)
    /\ saveEffect(FALSE)
    /\ UNCHANGED sideVars

(***************************************************************************)
(* The analyzer calls settle                                               *)
(***************************************************************************)
\* lines 227-245 and 272-289: every call has returned; merge and report
AnalysisComplete(results) ==
    LET formattedConflicts == formatConflicts(Returned(results), nextId) IN
    /\ conflicts' = mergeRun(conflicts, run, formattedConflicts)
    /\ nextId' = nextId + Len(formattedConflicts)
    /\ history' = addHistoryEvent(history,
            Event("analysis_complete",
                  IF run.mode = "batch" THEN <<Len(formattedConflicts)>>
                  ELSE <<Len(formattedConflicts),
                         run.pairs[1][1].title, run.pairs[1][2].title>>,
                  run.no))
    /\ notification' = showNotification(notification, "Analysis complete!", "success")
    /\ isAnalyzing' = finallyIsAnalyzing(isAnalyzing)
    /\ run' = IdleRun(run.no)
    /\ lastOp' = [NoOp(lastOp.n) EXCEPT !.op = "analysisComplete",
                                         !.returned = Returned(results)]
    /\ UNCHANGED <<documents, userProfile, reportsGeneratedCount>>

\* one call returns while others are still pending: only its promise changes
AnalyzerReturned(results) ==
    /\ run' = [run EXCEPT !.results = results]
    /\ UNCHANGED <<documents, conflicts, history, userProfile, reportsGeneratedCount, isAnalyzing,
                   notification, nextId, lastOp>>

\* The calls of a run are issued together and awaited jointly: what a call
\* returned is read by nobody before Promise.all settles, so the order in
\* which the calls return is unobservable.  The model lets them return in
\* pair order: p is the first call still pending.
isNextToSettle(results, p) ==
    /\ p \in DOMAIN results
    /\ ~results[p].settled
    /\ \A q \in 1..(p - 1) : results[q].settled

\* findConflictsBetweenDocuments(docA, docB) of pair p fulfils with `sevs`
AnalyzerFulfil(p, sevs) ==
    /\ run.pc = "analyzing"
    /\ isNextToSettle(run.results, p)
    /\ Len(Returned(run.results)) + Len(sevs) <= MaxRunCandidates
    /\ LET found == findConflictsBetweenDocuments(run.pairs[p][1], run.pairs[p][2], sevs)
           results == [run.results EXCEPT ![p] = Fulfilled(found)]
       IN  \/ (~allSettled(results) /\ AnalyzerReturned(results))
           \/ (allSettled(results) /\ AnalysisComplete(results))

\* findConflictsBetweenDocuments of pair p rejects: Promise.all rejects at once
AnalyzerReject(p) ==
    /\ run.pc = "analyzing"
    /\ isNextToSettle(run.results, p)
    /\ AnalysisFailed(IF run.mode = "batch"
                      THEN "An error occurred during analysis. Please check the console."
                      ELSE "An error occurred during analysis.")

AnalyzerSettles ==
    /\ \E p \in DOMAIN run.results :
            \/ \E sevs \in AnalyzerOutputs : AnalyzerFulfil(p, sevs)
            \/ AnalyzerReject(p)
    /\ saveEffect(FALSE)
    /\ UNCHANGED sideVars

(***************************************************************************)
(* Specification                                                           *)
(***************************************************************************)
Next ==
    \/ Resolve
    \/ UpdateProfile
    \/ GenerateReport
    \/ SaveDocument
    \/ StartAnalysis
    \/ FilesRead
    \/ FilesReadFail
    \/ AnalyzePair
    \/ AnalyzerSettles

Spec == Init /\ [][Next]_vars

\* Every promise a run awaits settles: the browser resolves or rejects
\* file.text(), and every analyzer call returns or fails.
Fairness ==
    /\ WF_vars(FilesRead \/ FilesReadFail)
    /\ WF_vars(AnalyzerSettles)

\* The handlers that are no analysis request (resolve, profile, report) read
\* and write neither isAnalyzing nor the suspended run, so a run proceeds the
\* same with or without them: SpecLive follows the runs alone.
NextRun ==
    \/ StartAnalysis
    \/ FilesRead
    \/ FilesReadFail
    \/ AnalyzePair
    \/ AnalyzerSettles

SpecLive == Init /\ [][NextRun]_vars /\ Fairness

(***************************************************************************)
(* The timeout of the save effect fires (App.tsx:121-131), and SpecSave:   *)
(* the handlers that complete in one step (resolve, profile, report, save  *)
(* document) with the save effect and its timeout.  The continuations of   *)
(* an analysis run reach the save effect through the same setters.         *)
(***************************************************************************)
\* safeLocalStorage.setItem returned true
saveStateWritten ==
    /\ storage' = stringify(saveTimer.state)
    /\ saveTimer' = [saveTimer EXCEPT !.pending = FALSE, !.logged = "none"]

\* setItem returned false (it caught the error of localStorage.setItem, or
\* storage is not supported): a warning at most, nothing else
saveStateFailed ==
    /\ storage' = storage
    /\ saveTimer' = [saveTimer EXCEPT !.pending = FALSE, !.logged = "warn"]

SaveTimerFires ==
    /\ saveTimer.pending
    /\ \/ saveStateWritten
       \/ saveStateFailed
    /\ UNCHANGED <<documents, conflicts, history, userProfile, reportsGeneratedCount,
                   isAnalyzing, notification, run, nextId, lastOp, boot>>
    /\ UNCHANGED sideVars

NextSave ==
    \/ Resolve
    \/ UpdateProfile
    \/ GenerateReport
    \/ SaveDocument
    \/ SaveTimerFires

\* a timeout that is not cleared fires
SpecSave == Init /\ [][NextSave]_vars /\ WF_vars(SaveTimerFires)

(***************************************************************************)
(* loadState (App.tsx:62-86) and the initial state of App (89-103)         *)
(***************************************************************************)
\* Array.isArray(v)
isArray(json) == json.t = "array"

\* typeof v === 'object' && v !== null: an array is an object too
isObject(json) == json.t \in {"object", "array"}

\* typeof v === 'number'
isNumber(json) == json.t = "number"

\* parsed.<name>: undefined when parsed has no such property
property(parsed, name) ==
    IF parsed.t = "object" /\ name \in DOMAIN parsed.o THEN parsed.o[name] ELSE JUndefined

\* a ? v : undefined
orUndefined(ok, json) == IF ok THEN json ELSE JUndefined

\* savedState === undefined: every savedState?.<name> is undefined
NoSavedState ==
    [documents |-> JUndefined, conflicts |-> JUndefined, history |-> JUndefined,
     userProfile |-> JUndefined, reportsGeneratedCount |-> JUndefined]

\* the object of lines 74-80
savedStateOf(parsed) ==
    [documents |-> orUndefined(isArray(property(parsed, "documents")),
                               property(parsed, "documents")),
     conflicts |-> orUndefined(isArray(property(parsed, "conflicts")),
                               property(parsed, "conflicts")),
     history |-> orUndefined(isArray(property(parsed, "history")),
                             property(parsed, "history")),
     userProfile |-> orUndefined(isObject(property(parsed, "userProfile")),
                                 property(parsed, "userProfile")),
     reportsGeneratedCount |-> orUndefined(isNumber(property(parsed, "reportsGeneratedCount")),
                                           property(parsed, "reportsGeneratedCount"))]

\* does loadState throw (JSON.parse fails, or line 70-72) and so remove the item
loadStateThrows(item) ==
    \/ item.item = "unparseable"
    \/ item.item = "text" /\ ~isObject(item.json)

\* loadState: what it returns for the stored item
loadState(item) ==
    IF item.item = "text" /\ isObject(item.json)
    THEN savedStateOf(item.json)
    ELSE NoSavedState

\* the item after loadState: removed in the catch block (line 83)
storageAfterLoad(item) == IF loadStateThrows(item) THEN NoItem ELSE item

\* v || fallback: undefined, null, 0 and '' are falsy
orDefault(json, fallback) ==
    IF \/ json.t \in {"undefined", "null"}
       \/ (json.t = "number" /\ json.n = 0)
       \/ (json.t = "string" /\ json.s = "")
    THEN fallback
    ELSE valueOf(json)

\* App mounts (lines 89-103, and the first run of the save effect)
Mount ==
    /\ ~boot.mounted
    /\ LET savedState == loadState(storage) IN
        /\ documents' = orDefault(savedState.documents, initialDocuments)
        /\ conflicts' = orDefault(savedState.conflicts, initialConflicts)
        /\ history' = orDefault(savedState.history, <<>>)
        /\ userProfile' = orDefault(savedState.userProfile, defaultProfile)
        /\ reportsGeneratedCount' = orDefault(savedState.reportsGeneratedCount, 0)
    /\ storage' = storageAfterLoad(storage)
    /\ boot' = Booted(storage)
    /\ saveTimer' = Armed(stateToSave')
    /\ UNCHANGED <<isAnalyzing, notification, run, nextId, lastOp>>
    /\ UNCHANGED sideVars

(***************************************************************************)
(* SpecLoad: App mounts over every stored item of StoredItems: none, a     *)
(* text that is no JSON, the text of a JSON value that is no object, of an *)
(* array, and of an object each of whose five properties is missing, of    *)
(* the wrong type, or well-formed.                                         *)
(***************************************************************************)
WrongShape == JString("x")

StoredDocuments == {JUndefined, WrongShape, JArray(<<Doc(9, "S")>>)}

StoredConflicts == {JUndefined, WrongShape, JArray(<<>>)}

StoredHistory ==
    {JUndefined, WrongShape, JArray(<<Event("report_generated", <<>>, 0)>>)}

StoredProfiles ==
    {JUndefined, WrongShape,
     JObject([name |-> "Saved", notificationsEnabled |-> FALSE, theme |-> "light"])}

StoredCounts == {JUndefined, WrongShape} \cup {JNumber(n) : n \in 0..MaxStoredReports}

StoredObjects ==
    [documents : StoredDocuments, conflicts : StoredConflicts, history : StoredHistory,
     userProfile : StoredProfiles, reportsGeneratedCount : StoredCounts]

StoredItems ==
    {NoItem, Unparseable, Text(JNull), Text(JNumber(1)), Text(WrongShape), Text(JArray(<<>>))}
        \cup {Text(JObject(o)) : o \in StoredObjects}

LoadInit ==
    /\ AppStateInit
    /\ storage \in StoredItems
    /\ saveTimer = NoTimer
    /\ boot = [mounted |-> FALSE, item |-> NoItem]
    /\ PairsIdle
    /\ GraphIdle
    /\ ViewInit

LoadNext == Mount

SpecLoad == LoadInit /\ [][LoadNext]_vars

(***************************************************************************)
(* SpecPairs: the pair loops of handleStartAnalysis (App.tsx:213-221) on   *)
(* their own, over every choice of up to MaxNew new and MaxOld existing    *)
(* documents with distinct ids.                                            *)
(***************************************************************************)
\* the sequences over S of length n without repetition
RECURSIVE InjectiveSeqs(_, _)
InjectiveSeqs(S, n) ==
    IF n = 0 THEN {<<>>}
    ELSE UNION {{Append(s, x) : x \in S \ Range(s)} : s \in InjectiveSeqs(S, n - 1)}

DocsOf(ids) == [k \in DOMAIN ids |-> Doc(ids[k], "a.txt")]

\* ids[1..m] are the documents of the store, the rest the new documents
SplitInput(ids, m) ==
    [newDocuments |-> DocsOf(SubSeq(ids, m + 1, Len(ids))),
     documents    |-> DocsOf(SubSeq(ids, 1, m)),
     done         |-> FALSE]

PairInputs ==
    UNION {{SplitInput(ids, mn[1]) : ids \in InjectiveSeqs(1..PairIdPool, mn[1] + mn[2])} :
              mn \in (0..MaxOld) \X (0..MaxNew)}

PairsInit ==
    /\ AppInit
    /\ pgInput \in PairInputs
    /\ pgPairs = <<>>
    /\ GraphIdle
    /\ ViewInit

GeneratePairs ==
    /\ ~pgInput.done
    /\ pgPairs' = generatePairs(pgInput.newDocuments, pgInput.documents)
    /\ pgInput' = [pgInput EXCEPT !.done = TRUE]
    /\ UNCHANGED <<appVars, graphVars, viewVars>>

PairsNext == GeneratePairs

SpecPairs == PairsInit /\ [][PairsNext]_vars

(***************************************************************************)
(* The graph builder of DocumentGraphViewer (DocumentGraphViewer.tsx:76-123) *)
(* A Map is a sequence of entries in insertion order.  The position of a   *)
(* node on the circle (lines 89-90, cos and sin) is left out of the nodes. *)
(***************************************************************************)
\* calculatedNodes: documents.map((doc, i) => ({id: doc.id, label: doc.title, ...}))
calculatedNodes(docs) ==
    [i \in DOMAIN docs |-> [id |-> docs[i].id, label |-> docs[i].title]]

conflictCountOfSelfOnly(cs, docId) ==
    Cardinality({k \in DOMAIN cs : cs[k].documentIds[1] = docId})

\* conflicts.filter(c => c.documentIds.includes(doc.id)).length
conflictCountOf(cs, docId) ==
    Cardinality({k \in DOMAIN cs : Includes(cs[k].documentIds, docId)})

\* calculatedNodeConflictCounts: one entry per document id
calculatedNodeConflictCounts(docs, cs) ==
    [id \in {docs[i].id : i \in DOMAIN docs} |-> conflictCountOf(cs, id)]

\* A document id is a string.  The graph builder is the one place that
\* looks inside the ids (it sorts them and joins them into a key), so here
\* an id n stands for the string IdStrings[n], a sequence of characters.
IdStrings ==
    <<<<"a">>, <<"b">>, <<"c">>, <<"a", "-", "b">>, <<"b", "-", "c">>>>

idString(id) == IdStrings[id]

\* the characters of the ids, in the order of their UTF-16 code units
CodeUnitOrder == <<"-", "a", "b", "c">>

codeUnit(ch) == CHOOSE i \in DOMAIN CodeUnitOrder : CodeUnitOrder[i] = ch

RECURSIVE stringLess(_, _)
\* the comparison of the default sort: code unit by code unit, a proper
\* prefix first
stringLess(s, t) ==
    IF t = <<>> THEN FALSE
    ELSE IF s = <<>> THEN TRUE
    ELSE IF Head(s) = Head(t) THEN stringLess(Tail(s), Tail(t))
    ELSE codeUnit(Head(s)) < codeUnit(Head(t))

\* [...ids].sort() of a two-element array
sortedIds(documentIds) ==
    IF stringLess(idString(documentIds[2]), idString(documentIds[1]))
    THEN <<documentIds[2], documentIds[1]>>
    ELSE documentIds

\* the template literal `${a}-${b}`
joinWithDash(a, b) == idString(a) \o <<"-">> \o idString(b)

\* the key of a conflict's edge: the two sorted ids joined with '-'
edgeKey(documentIds) ==
    joinWithDash(sortedIds(documentIds)[1], sortedIds(documentIds)[2])

countsAsUnresolvedAlways(conflict) == TRUE

\* conflict.status === 'unresolved'
countsAsUnresolved(conflict) == conflict.status = "unresolved"

\* one turn of conflicts.forEach: create the edge of the key if the map has
\* none, then count the conflict if it is unresolved
edgeMapWith(edgeMap, conflict) ==
    LET key == edgeKey(conflict.documentIds)
        has == \E e \in DOMAIN edgeMap : edgeMap[e].key = key
        withKey == IF has THEN edgeMap
                   ELSE Append(edgeMap,
                               [key |-> key,
                                source |-> conflict.documentIds[1],
                                target |-> conflict.documentIds[2],
                                unresolvedConflictCount |-> 0])
    IN  [e \in DOMAIN withKey |->
            IF withKey[e].key = key /\ countsAsUnresolved(conflict)
            THEN [withKey[e] EXCEPT !.unresolvedConflictCount = @ + 1]
            ELSE withKey[e]]

RECURSIVE edgeMapOf(_, _)
\* conflicts.forEach(conflict => ...)
edgeMapOf(edgeMap, cs) ==
    IF cs = <<>> THEN edgeMap
    ELSE edgeMapOf(edgeMapWith(edgeMap, Head(cs)), Tail(cs))

\* Array.from(edgeMap.values())
calculatedEdges(cs) ==
    LET edgeMap == edgeMapOf(<<>>, cs)
    IN  [e \in DOMAIN edgeMap |->
            [source |-> edgeMap[e].source, target |-> edgeMap[e].target,
             unresolvedConflictCount |-> edgeMap[e].unresolvedConflictCount]]

\* the useMemo of lines 76-123
buildGraph(docs, cs) ==
    IF Len(docs) = 0
    THEN NoGraph
    ELSE [nodes |-> calculatedNodes(docs),
          edges |-> calculatedEdges(cs),
          nodeConflictCounts |-> calculatedNodeConflictCounts(docs, cs)]

(***************************************************************************)
(* SpecGraph: the graph builder on its own, over the first n documents of  *)
(* GraphDocuments, n = 0..5, and every list of up to MaxGraphConflicts     *)
(* conflicts over GraphPairs, of any status.  The ids of the last two      *)
(* documents have a '-' inside, as the ids that crypto.randomUUID makes.   *)
(***************************************************************************)
GraphDocuments == <<Doc(1, "A"), Doc(2, "B"), Doc(3, "C"), Doc(4, "D"), Doc(5, "E")>>

GraphConflict(documentIds, status) ==
    [documentIds |-> documentIds, status |-> status]

\* the documentIds of the conflicts: one pair in both id orders, one with the
\* larger id first, and two pairs with an id that has a '-' inside
GraphPairs == {<<1, 2>>, <<2, 1>>, <<3, 2>>, <<4, 3>>, <<1, 5>>}

GraphConflicts == {GraphConflict(ab, st) : ab \in GraphPairs, st \in Status}

\* the props of the component: a document list and at most maxConflicts
\* conflicts
GraphInputs(maxConflicts) ==
    {[documents |-> SubSeq(GraphDocuments, 1, n), conflicts |-> cs, done |-> FALSE] :
        n \in 0..Len(GraphDocuments), cs \in SeqsUpTo(GraphConflicts, maxConflicts)}

GraphInit ==
    /\ AppInit
    /\ PairsIdle
    /\ gInput \in GraphInputs(MaxGraphConflicts)
    /\ gOutput = NoGraph
    /\ ViewInit

BuildGraph ==
    /\ ~gInput.done
    /\ gOutput' = buildGraph(gInput.documents, gInput.conflicts)
    /\ gInput' = [gInput EXCEPT !.done = TRUE]
    /\ UNCHANGED <<appVars, pgVars, viewVars>>

GraphNext == BuildGraph

SpecGraph == GraphInit /\ [][GraphNext]_vars

(***************************************************************************)
(* The viewport handlers of DocumentGraphViewer (lines 135-191).  Every    *)
(* mouse event is one action; the component is rendered again between two  *)
(* events.                                                                 *)
(***************************************************************************)
\* handleMouseDown: setPanStart({x: e.clientX, y: e.clientY}); setIsPanning(true)
beginPanStartNone(e) == Point(0, 0)

\* setPanStart({x: e.clientX, y: e.clientY}) of handleMouseDown
beginPanStart(e) == e

handleMouseDown(e) ==
    /\ panStart' = beginPanStart(e)
    /\ isPanning' = TRUE
    /\ UNCHANGED <<transform, hoveredNodeId, tooltip>>

nextPanStartKept(prev, e) == prev

\* setPanStart({x: e.clientX, y: e.clientY}) of handleMouseMove
nextPanStart(prev, e) == e

\* handleMouseMove: nothing unless panning; else add the pointer delta since
\* panStart to the translation and move panStart to the pointer
handleMouseMove(e) ==
    IF ~isPanning
    THEN UNCHANGED <<transform, panStart, isPanning, hoveredNodeId, tooltip>>
    ELSE LET dx == e.x - panStart.x
             dy == e.y - panStart.y
         IN  /\ transform' = [transform EXCEPT !.x = CoordPlus(@, Coord(dx)),
                                               !.y = CoordPlus(@, Coord(dy))]
             /\ panStart' = nextPanStart(panStart, e)
             /\ UNCHANGED <<isPanning, hoveredNodeId, tooltip>>

\* handleMouseUpOrLeave: setIsPanning(false)
handleMouseUpOrLeave ==
    /\ isPanning' = FALSE
    /\ UNCHANGED <<transform, panStart, hoveredNodeId, tooltip>>

\* svg.getScreenCTM(): null, or the matrix that places the svg in the
\* viewport; the model draws the svg at scale 1, shifted by (e, f)
NullCtm == [null |-> TRUE]

ScreenCtm == [e |-> 1, f |-> 2]

\* point.matrixTransform(ctm.inverse())
matrixTransformInverse(point, ctm) == Point(point.x - ctm.e, point.y - ctm.f)

\* Math.min(Math.max(0.2, newScale), 5)
clampScale(newScale) ==
    LET atLeast == IF ScaleLess(newScale, MinScale) THEN MinScale ELSE newScale
    IN  IF ScaleLess(MaxScale, atLeast) THEN MaxScale ELSE atLeast

\* e.deltaY > 0 ? transform.k / scaleAmount : transform.k * scaleAmount
newScaleOf(k, deltaY) ==
    IF deltaY > 0 THEN ScaleOver(k, scaleAmount) ELSE ScaleTimes(k, scaleAmount)

recentreNot(mouse, at, ratio) == at

\* mouseX - (mouseX - transform.x) * (clampedScale / transform.k)
recentre(mouse, at, ratio) ==
    CoordMinus(Coord(mouse), CoordTimes(CoordMinus(Coord(mouse), at), ratio))

\* handleWheel: zoom by scaleAmount about the pointer, the scale clamped
handleWheel(e, ctm, deltaY) ==
    IF ctm = NullCtm
    THEN UNCHANGED <<transform, panStart, isPanning, hoveredNodeId, tooltip>>
    ELSE LET mouse == matrixTransformInverse(e, ctm)
             newScale == newScaleOf(transform.k, deltaY)
             clampedScale == clampScale(newScale)
             ratio == ScaleOver(clampedScale, transform.k)
             newX == recentre(mouse.x, transform.x, ratio)
             newY == recentre(mouse.y, transform.y, ratio)
         IN  /\ UNCHANGED <<panStart, isPanning, hoveredNodeId, tooltip>>
             /\ transform' = [x |-> newX, y |-> newY, k |-> clampedScale]

\* the graph the viewer draws: built from the documents and conflicts of App
viewGraph == buildGraph(documents, conflicts)

\* handleNodeMouseEnter: hover the node and show its tooltip (label and
\* 'Total Conflicts: ' + count; the tooltip's position is left out)
handleNodeMouseEnter(node) ==
    LET counts == viewGraph.nodeConflictCounts
        conflictCount == IF node.id \in DOMAIN counts THEN counts[node.id] ELSE 0
    IN  /\ hoveredNodeId' = node.id
        /\ tooltip' = [contentLines |-> <<node.label, conflictCount>>]
        /\ UNCHANGED <<transform, panStart, isPanning>>

\* handleNodeMouseLeave
handleNodeMouseLeave ==
    /\ hoveredNodeId' = NoNodeId
    /\ tooltip' = NoTooltip
    /\ UNCHANGED <<transform, panStart, isPanning>>

\* activeNodeIds === null
NoActiveSet == [hovering |-> FALSE, ids |-> {}]

activeNodeIdsOutgoing(hovered, edges) ==
    IF hovered = NoNodeId THEN NoActiveSet
    ELSE [hovering |-> TRUE,
          ids |-> {hovered} \cup {edges[e].target : e \in {d \in DOMAIN edges : edges[d].source = hovered}}]

\* the useMemo of lines 125-133: the hovered node and the other end of every
\* edge that has it as source or as target
activeNodeIdsOf(hovered, edges) ==
    IF hovered = NoNodeId THEN NoActiveSet
    ELSE [hovering |-> TRUE,
          ids |-> {hovered}
                  \cup {edges[e].target : e \in {d \in DOMAIN edges : edges[d].source = hovered}}
                  \cup {edges[e].source : e \in {d \in DOMAIN edges : edges[d].target = hovered}}]

activeNodeIds == activeNodeIdsOf(hoveredNodeId, viewGraph.edges)

(***************************************************************************)
(* SpecView: the viewport over the seed graph.  The mouse presses, moves   *)
(* (to another of PointerPositions), is released, turns the wheel, enters  *)
(* and leaves nodes.  Before the mouse first moves the wheel is free: the  *)
(* scale walks its whole range about one point.  After that MaxWheel       *)
(* bounds the wheel events, and MaxMoves the moves.                        *)
(***************************************************************************)
\* e.deltaY of a wheel event: down, none (a sideways scroll), up
WheelDeltas == {100, 0, -100}

MouseDown ==
    /\ handleMouseDown(pointer)
    /\ UNCHANGED <<pointer, viewEvents>>
    /\ UNCHANGED <<appVars, pgVars, graphVars>>

MouseMove ==
    /\ viewEvents.moves < MaxMoves
    /\ \E e \in PointerPositions \ {pointer} :
            /\ pointer' = e
            /\ handleMouseMove(e)
    /\ viewEvents' = [viewEvents EXCEPT !.moves = @ + 1]
    /\ UNCHANGED <<appVars, pgVars, graphVars>>

MouseUpOrLeave ==
    /\ handleMouseUpOrLeave
    /\ UNCHANGED <<pointer, viewEvents>>
    /\ UNCHANGED <<appVars, pgVars, graphVars>>

Wheel ==
    /\ (viewEvents.moves = 0 \/ viewEvents.wheels < MaxWheel)
    /\ \E deltaY \in WheelDeltas, ctm \in {NullCtm, ScreenCtm} :
            handleWheel(pointer, ctm, deltaY)
    /\ viewEvents' = IF viewEvents.moves = 0 THEN viewEvents
                     ELSE [viewEvents EXCEPT !.wheels = @ + 1]
    /\ UNCHANGED pointer
    /\ UNCHANGED <<appVars, pgVars, graphVars>>

NodeMouseEnter ==
    /\ LET nodes == viewGraph.nodes
       IN  \E n \in DOMAIN nodes : handleNodeMouseEnter(nodes[n])
    /\ UNCHANGED <<pointer, viewEvents>>
    /\ UNCHANGED <<appVars, pgVars, graphVars>>

NodeMouseLeave ==
    /\ hoveredNodeId # NoNodeId
    /\ handleNodeMouseLeave
    /\ UNCHANGED <<pointer, viewEvents>>
    /\ UNCHANGED <<appVars, pgVars, graphVars>>

ViewNext ==
    \/ MouseDown
    \/ MouseMove
    \/ MouseUpOrLeave
    \/ Wheel
    \/ NodeMouseEnter
    \/ NodeMouseLeave

SpecView == Init /\ [][ViewNext]_vars

(***************************************************************************)
(* SpecPan: pan gestures.  The mouse presses, moves among PanPositions up  *)
(* to MaxPanMoves times, is released, and the wheel turns up to            *)
(* MaxPanWheel times.  viewEvents also remembers, for the gesture going    *)
(* on, the translation and the pointer at its mouse down and the wheel     *)
(* events since.                                                           *)
(***************************************************************************)
PanPositions == PointerPositions \cup {Point(2, 7)}

NoGesture == [x |-> Coord(0), y |-> Coord(0), p0 |-> Point(0, 0), wheels |-> 0]

PanInit ==
    /\ AppInit
    /\ PairsIdle
    /\ GraphIdle
    /\ hoveredNodeId = NoNodeId
    /\ transform = [x |-> Coord(0), y |-> Coord(0), k |-> ScaleOne]
    /\ isPanning = FALSE
    /\ panStart = Point(0, 0)
    /\ tooltip = NoTooltip
    /\ pointer = PointerStart
    /\ viewEvents = [moves |-> 0, wheels |-> 0, gesture |-> NoGesture]

PanDown ==
    /\ handleMouseDown(pointer)
    /\ viewEvents' = [viewEvents EXCEPT !.gesture =
            [x |-> transform.x, y |-> transform.y, p0 |-> pointer, wheels |-> 0]]
    /\ UNCHANGED pointer
    /\ UNCHANGED <<appVars, pgVars, graphVars>>

PanMove ==
    /\ viewEvents.moves < MaxPanMoves
    /\ \E e \in PanPositions \ {pointer} :
            /\ pointer' = e
            /\ handleMouseMove(e)
    /\ viewEvents' = [viewEvents EXCEPT !.moves = @ + 1]
    /\ UNCHANGED <<appVars, pgVars, graphVars>>

PanWheel ==
    /\ viewEvents.wheels < MaxPanWheel
    /\ \E deltaY \in WheelDeltas : handleWheel(pointer, ScreenCtm, deltaY)
    /\ viewEvents' = [viewEvents EXCEPT !.wheels = @ + 1, !.gesture.wheels = @ + 1]
    /\ UNCHANGED pointer
    /\ UNCHANGED <<appVars, pgVars, graphVars>>

PanNext ==
    \/ PanDown
    \/ PanMove
    \/ MouseUpOrLeave
    \/ PanWheel

SpecPan == PanInit /\ [][PanNext]_vars

(***************************************************************************)
(* SpecHover: the hover handlers over every store of no document, of the   *)
(* first three or of all the documents of GraphDocuments, and up to        *)
(* MaxHoverConflicts conflicts over GraphPairs, of any status.             *)
(***************************************************************************)
HoverInputs(maxConflicts) ==
    {[documents |-> docs, conflicts |-> cs] :
        docs \in {<<>>, SubSeq(GraphDocuments, 1, Len(GraphDocuments) - 2), GraphDocuments},
        cs \in SeqsUpTo(GraphConflicts, maxConflicts)}

HoverInit ==
    /\ \E props \in HoverInputs(MaxHoverConflicts) :
            /\ documents = props.documents
            /\ conflicts = props.conflicts
    /\ history = <<>>
    /\ userProfile = defaultProfile
    /\ reportsGeneratedCount = 0
    /\ isAnalyzing = FALSE
    /\ notification = NoNotification
    /\ run = IdleRun(0)
    /\ nextId = FirstFreshId
    /\ lastOp = NoOp(0)
    /\ storage = NoItem
    /\ saveTimer = Armed(stateToSave)
    /\ boot = Booted(NoItem)
    /\ PairsIdle
    /\ GraphIdle
    /\ ViewInit

HoverNext ==
    \/ NodeMouseEnter
    \/ NodeMouseLeave

SpecHover == HoverInit /\ [][HoverNext]_vars

(***************************************************************************)
(* C1  Batch pair generation: for N new and M existing documents the pair  *)
(* list has N*M + N*(N-1)/2 entries, no pair of a document with itself, no *)
(* unordered pair twice; first the new-x-existing pairs (new documents in  *)
(* ingestion order, for each the existing ones in store order), then the   *)
(* intra-batch pairs (i,j), i<j, in lexicographic index order.             *)
(***************************************************************************)
\* the intra-batch index pairs that precede (i,j) lexicographically
IntraBefore(n, i, j) ==
    Cardinality({ab \in (1..n) \X (1..n) :
                    /\ ab[1] < ab[2]
                    /\ (ab[1] < i \/ (ab[1] = i /\ ab[2] < j))})

C1_PairGeneration ==
    pgInput.done =>
        LET new == pgInput.newDocuments
            old == pgInput.documents
            N == Len(new)
            M == Len(old)
        IN  /\ Len(pgPairs) = N * M + (N * (N - 1)) \div 2
            /\ \A k \in DOMAIN pgPairs : pgPairs[k][1].id # pgPairs[k][2].id
            /\ \A k, l \in DOMAIN pgPairs :
                   k # l => {pgPairs[k][1].id, pgPairs[k][2].id}
                                # {pgPairs[l][1].id, pgPairs[l][2].id}
            /\ \A i \in 1..N, j \in 1..M :
                   pgPairs[(i - 1) * M + j] = <<new[i], old[j]>>
            /\ \A i \in 1..N, j \in 1..N :
                   i < j => pgPairs[N * M + IntraBefore(N, i, j) + 1] = <<new[i], new[j]>>

\* pairs were generated for three new documents against two existing ones
C1_Witness ==
    /\ pgInput.done
    /\ Len(pgInput.newDocuments) = 3
    /\ Len(pgInput.documents) = 2
    /\ Len(pgPairs) = 9

(***************************************************************************)
(* Vocabulary of the claims about the conflict lifecycle                   *)
(***************************************************************************)
ConflictIds(cs) == {cs[i].id : i \in DOMAIN cs}

\* c belongs to one of the pairs, in either order of its two document ids
PairMatches(c, pairs) ==
    \E p \in DOMAIN pairs :
        {c.documentIds[1], c.documentIds[2]} = {pairs[p][1].id, pairs[p][2].id}

\* what the analyzer returned of a conflict: all but id, status, resolution
Candidate(c) ==
    [documentIds |-> c.documentIds, documentTitles |-> c.documentTitles,
     excerpts |-> c.excerpts, explanation |-> c.explanation, severity |-> c.severity]

\* the step in which a run ends successfully
RunCompletes ==
    /\ run.pc = "analyzing"
    /\ run'.pc = "idle"
    /\ lastOp'.op = "analysisComplete"

\* the step in which a run ends in its catch block
RunFails ==
    /\ run.pc # "idle"
    /\ run'.pc = "idle"
    /\ lastOp'.op = "analysisFailed"

\* the step is a call of handleResolveConflict
ResolveStep ==
    /\ lastOp'.op = "resolve"
    /\ lastOp'.n = lastOp.n + 1

ValidResolutions == {"accept_doc1", "accept_doc2", "ignore"}

EventsOfRun(h, r) == SelectSeq(h, LAMBDA e : e.run = r)

(***************************************************************************)
(* C2  Stale purge: when a run over the pair set P completes, no conflict  *)
(* of the store whose documentIds match a pair of P (either order) is      *)
(* kept, and the conflicts of the pairs of P are then exactly the          *)
(* candidates this run returned (none, if it returned none).               *)
(***************************************************************************)
C2_StalePurge ==
    [][RunCompletes =>
        LET now == SelectSeq(conflicts', LAMBDA c : PairMatches(c, run.pairs)) IN
        /\ \A i \in DOMAIN conflicts :
               PairMatches(conflicts[i], run.pairs)
                   => conflicts[i].id \notin ConflictIds(conflicts')
        /\ [k \in DOMAIN now |-> Candidate(now[k])] = lastOp'.returned
      ]_vars

\* the seed conflicts of (d1,d2) and (d2,d1) were analysed again, the run
\* returned nothing, and no conflict is left
C2_Witness ==
    /\ lastOp.op = "analysisComplete"
    /\ lastOp.returned = <<>>
    /\ conflicts = <<>>

(***************************************************************************)
(* C3  Untouched pairs: the merge of a run over P keeps every conflict     *)
(* whose pair is not in P exactly as it is in the store at that moment     *)
(* (id, status, resolution, severity, relative order), a resolve made      *)
(* while the analyzer calls were in flight included.                       *)
(***************************************************************************)
C3_UntouchedPairs ==
    [][RunCompletes =>
        LET untouched == SelectSeq(conflicts, LAMBDA c : ~PairMatches(c, run.pairs)) IN
        /\ Len(conflicts') >= Len(untouched)
        /\ SubSeq(conflicts', 1, Len(untouched)) = untouched
        /\ \A k \in (Len(untouched) + 1)..Len(conflicts') :
               conflicts'[k].id \notin ConflictIds(conflicts)
      ]_vars

\* seed conflict 3 was ignored between analysis_started and the merge of a
\* run over other pairs, and is still ignored after the merge
C3_Witness ==
    /\ lastOp.op = "analysisComplete"
    /\ Len(history) >= 3
    /\ history[1].type = "analysis_complete"
    /\ history[2].type = "conflict_resolved"
    /\ history[3].type = "analysis_started"
    /\ \E i \in DOMAIN conflicts :
           conflicts[i].id = 3 /\ conflicts[i].status = "ignored"

(***************************************************************************)
(* C4  Resolution invariant: for every conflict, status = resolved iff     *)
(* resolution is accept_doc1 or accept_doc2, status = ignored iff          *)
(* resolution = ignore, status = unresolved iff resolution is null.        *)
(***************************************************************************)
C4_ResolutionInvariant ==
    \A i \in DOMAIN conflicts :
        /\ conflicts[i].status = "resolved"
               <=> conflicts[i].resolution \in {"accept_doc1", "accept_doc2"}
        /\ conflicts[i].status = "ignored" <=> conflicts[i].resolution = "ignore"
        /\ conflicts[i].status = "unresolved" <=> conflicts[i].resolution = Null

(***************************************************************************)
(* C5  resolve(conflictId, r) with r one of accept_doc1, accept_doc2,      *)
(* ignore on an existing conflict, whatever its status was, leaves it with *)
(* resolution = r and status = ignored for r = ignore, resolved otherwise. *)
(***************************************************************************)
C5_ResolveSets ==
    (lastOp.op = "resolve" /\ lastOp.found /\ lastOp.resolution \in ValidResolutions) =>
        /\ lastOp.conflictId \in ConflictIds(conflicts)
        /\ \A i \in DOMAIN conflicts :
               conflicts[i].id = lastOp.conflictId =>
                   /\ conflicts[i].resolution = lastOp.resolution
                   /\ conflicts[i].status =
                          IF lastOp.resolution = "ignore" THEN "ignored" ELSE "resolved"

\* seed conflict 4, resolved with accept_doc1 before, was resolved again
\* with ignore and is now ignored
C5_Witness ==
    /\ lastOp.op = "resolve"
    /\ lastOp.conflictId = 4
    /\ lastOp.resolution = "ignore"
    /\ \E i \in DOMAIN conflicts :
           conflicts[i].id = 4 /\ conflicts[i].status = "ignored"

(***************************************************************************)
(* C6  resolve with an id that no conflict of the store has leaves the     *)
(* conflict list unchanged and appends no history event.                   *)
(***************************************************************************)
C6_UnknownIdNoEffect ==
    [][(ResolveStep /\ lastOp'.conflictId \notin ConflictIds(conflicts)) =>
            (conflicts' = conflicts /\ history' = history)
      ]_vars

\* resolve was called with an id of no conflict
C6_Witness ==
    /\ lastOp.op = "resolve"
    /\ lastOp.conflictId \notin ConflictIds(conflicts)
    /\ ~lastOp.found

(***************************************************************************)
(* C7  resolve reports an error for an invalid call (no conflict with the  *)
(* id, or a resolution that is none of the three valid values), so that    *)
(* the call is distinguishable from a successful one.                      *)
(***************************************************************************)
C7_ErrorReported ==
    (lastOp.op = "resolve"
        /\ (~lastOp.found \/ lastOp.resolution \notin ValidResolutions))
    => notification.type = "error"

(***************************************************************************)
(* C8  resolve is idempotent: a second call resolve(id, r) right after     *)
(* resolve(id, r) on the same conflict changes neither the conflicts nor   *)
(* the history log.                                                        *)
(***************************************************************************)
\* the step is the second of two consecutive calls resolve(id, r) on a
\* conflict of the store
SecondResolve ==
    /\ ResolveStep
    /\ lastOp.op = "resolve"
    /\ lastOp.found
    /\ lastOp'.conflictId = lastOp.conflictId
    /\ lastOp'.resolution = lastOp.resolution

C9_TwoEvents ==
    /\ [](run.pc = "analyzing" =>
            \E i \in DOMAIN history :
                history[i].type = "analysis_started" /\ history[i].run = run.no)
    /\ [][RunCompletes =>
            LET evs == EventsOfRun(history', run.no) IN
            /\ Len(evs) = 2
            /\ evs[1].type = "analysis_complete"
            /\ evs[2].type = "analysis_started"
            /\ Head(history') = evs[1]
            /\ evs[1].details[1] =
                   Cardinality({i \in DOMAIN conflicts' :
                                   conflicts'[i].id \notin ConflictIds(conflicts)})
         ]_vars

\* a run completed that inserted one conflict and reported the count 1
C9_Witness ==
    /\ lastOp.op = "analysisComplete"
    /\ Len(lastOp.returned) = 1
    /\ history[1].type = "analysis_complete"
    /\ history[1].details[1] = 1

(***************************************************************************)
(* C10  All-or-nothing merge: a run that fails appends analysis_error and  *)
(* leaves the conflict list as it is; a run changes the conflict list in   *)
(* one step only, the step in which its last pending analyzer call         *)
(* returns, so no partially merged list is ever in the store.              *)
(***************************************************************************)
PendingCalls(results) == {p \in DOMAIN results : ~results[p].settled}

C10_AllOrNothing ==
    [][/\ RunFails =>
            /\ conflicts' = conflicts
            /\ Len(history') = Len(history) + 1
            /\ Head(history').type = "analysis_error"
            /\ Head(history').run = run.no
            /\ EventsOfRun(history', run.no)[2].type = "analysis_started"
       /\ (conflicts' # conflicts /\ ~ResolveStep) =>
            /\ RunCompletes
            /\ Cardinality(PendingCalls(run.results)) = 1
      ]_vars

\* a batch run failed after one of its calls had returned a candidate, and
\* the conflict list is the seed list
C10_Witness ==
    /\ lastOp.op = "analysisFailed"
    /\ Len(lastOp.returned) = 1
    /\ conflicts = initialConflicts
    /\ history[1].type = "analysis_error"

(***************************************************************************)
(* C11  Ingestion and analysis failures are independent: when a batch run  *)
(* has read its files and an analyzer call then fails, every document the  *)
(* run ingested is still in the document store when the run ends (under    *)
(* its id: its content may have been saved from the editor meanwhile).     *)
(***************************************************************************)
\* the documents a run ingested: those of its pairs that its closure's
\* document list did not hold
NewDocumentsOf(r) ==
    {d \in UNION {{r.pairs[p][1], r.pairs[p][2]} : p \in DOMAIN r.pairs} :
        d \notin Range(r.documents)}

C11_IngestionRetained ==
    [][(RunFails /\ run.pc = "analyzing" /\ run.mode = "batch") =>
            /\ Cardinality(NewDocumentsOf(run)) >= 2
            /\ {d.id : d \in NewDocumentsOf(run)} \subseteq
                   {documents'[i].id : i \in DOMAIN documents'}
      ]_vars

\* a batch run ingested two documents, then failed in an analyzer call, and
\* the store holds the two seed documents and the two new ones
C11_Witness ==
    /\ lastOp.op = "analysisFailed"
    /\ run.pc = "idle"
    /\ Len(documents) = Len(initialDocuments) + 2
    /\ Head(history).type = "analysis_error"

(***************************************************************************)
(* C12  Validation before side effects: a batch request with fewer than    *)
(* two usable documents (fewer than two files, or fewer than two           *)
(* plain-text files) leaves documents, conflicts and history as they were. *)
(***************************************************************************)
\* the step is a call handleStartAnalysis(files) with fewer than two
\* plain-text files among `files`
TooFewUsableRequest ==
    \E files \in SeqsUpTo(FilePool, MaxFiles) :
        /\ Len(textFilesOf(files)) < 2
        /\ analysisGate
        /\ handleStartAnalysis(files)

C12_ValidationNoMutation ==
    [][TooFewUsableRequest =>
            (documents' = documents /\ conflicts' = conflicts /\ history' = history)
      ]_vars

(***************************************************************************)
(* C13  At most one analysis run at a time: a run starts only while no run *)
(* is in flight and isAnalyzing is false; while isAnalyzing is true the    *)
(* only handler calls are those that are no analysis request (resolve,     *)
(* profile, report, save document), and none of them starts a run or       *)
(* issues an analyzer call; but for a save, none changes the documents.    *)
(***************************************************************************)
C13_SingleRun ==
    /\ [](isAnalyzing <=> run.pc # "idle")
    /\ [][run'.no # run.no => (~isAnalyzing /\ run.pc = "idle")]_vars
    /\ [][(isAnalyzing /\ lastOp'.n # lastOp.n) =>
            /\ lastOp'.op \in {"resolve", "updateProfile", "generateReport", "saveDocument"}
            /\ run' = run
            /\ lastOp'.op # "saveDocument" => documents' = documents
         ]_vars

\* a second run is in flight, accepted after the first one had ended
C13_Witness ==
    /\ run.no = 2
    /\ run.pc = "analyzing"
    /\ isAnalyzing

(***************************************************************************)
(* C14  Every run releases the gate: whenever isAnalyzing is true it       *)
(* eventually becomes false again, given that every promise the run awaits *)
(* settles.                                                                *)
(***************************************************************************)
C14_GateReleased == isAnalyzing ~> ~isAnalyzing

\* a run that failed while reading its files has released the gate
C14_Witness ==
    /\ lastOp.op = "analysisFailed"
    /\ ~isAnalyzing
    /\ run.no = 1
    /\ documents = initialDocuments
    /\ lastOp.returned = <<>>
    /\ Len(history) = 2

(***************************************************************************)
(* C15  The history log is append-only, newest first: every step leaves it *)
(* unchanged or puts exactly one new event in front of it.                 *)
(***************************************************************************)
C15_AppendOnly ==
    [][\/ history' = history
       \/ (Len(history') = Len(history) + 1 /\ Tail(history') = history)
      ]_vars

\* a report was generated after a profile update: two events, newest first
C15_Witness ==
    /\ Len(history) = 2
    /\ history[1].type = "report_generated"
    /\ history[2].type = "profile_updated"

(***************************************************************************)
(* Vocabulary of the claims about the graph builder                        *)
(***************************************************************************)
\* the unordered pairs of document ids that have a conflict
ConflictPairs(cs) == {{cs[k].documentIds[1], cs[k].documentIds[2]} : k \in DOMAIN cs}

\* the conflicts of an unordered pair that are unresolved
UnresolvedOf(cs, pair) ==
    {k \in DOMAIN cs :
        /\ {cs[k].documentIds[1], cs[k].documentIds[2]} = pair
        /\ cs[k].status = "unresolved"}

\* the edges are one per unordered pair with a conflict, each with the
\* number of unresolved conflicts of its pair
EdgesAggregate(edges, cs) ==
    /\ \A pair \in ConflictPairs(cs) :
           Cardinality({e \in DOMAIN edges : {edges[e].source, edges[e].target} = pair}) = 1
    /\ \A e \in DOMAIN edges :
           /\ {edges[e].source, edges[e].target} \in ConflictPairs(cs)
           /\ edges[e].unresolvedConflictCount =
                  Cardinality(UnresolvedOf(cs, {edges[e].source, edges[e].target}))

(***************************************************************************)
(* C16  Graph edge aggregation, as stated: for any documents and conflicts *)
(* the builder produces exactly one edge for each unordered pair of        *)
(* document ids with at least one conflict of any status and no other      *)
(* edge, and its unresolvedConflictCount is the number of unresolved       *)
(* conflicts of the pair in either id order.                               *)
(***************************************************************************)
C16_EdgeAggregation ==
    gInput.done => EdgesAggregate(gOutput.edges, gInput.conflicts)

(***************************************************************************)
(* C17  Graph nodes and per-node counts: one node per document, in store   *)
(* order, with id = document id and label = title; the count of a document *)
(* is the number of conflicts of any status whose documentIds contain it;  *)
(* with no documents there are no nodes, no edges and no counts.           *)
(***************************************************************************)
C17_NodesAndCounts ==
    gInput.done =>
        LET docs == gInput.documents
            cs == gInput.conflicts
        IN  /\ Len(gOutput.nodes) = Len(docs)
            /\ \A i \in DOMAIN docs :
                   /\ gOutput.nodes[i].id = docs[i].id
                   /\ gOutput.nodes[i].label = docs[i].title
            /\ DOMAIN gOutput.nodeConflictCounts = {docs[i].id : i \in DOMAIN docs}
            /\ \A i \in DOMAIN docs :
                   gOutput.nodeConflictCounts[docs[i].id] =
                       Cardinality({k \in DOMAIN cs :
                           docs[i].id \in {cs[k].documentIds[1], cs[k].documentIds[2]}})
            /\ Len(docs) = 0 =>
                   (gOutput.nodes = <<>> /\ gOutput.edges = <<>>
                        /\ DOMAIN gOutput.nodeConflictCounts = {})

\* three documents, conflicts (1,2) and (2,1): document 2 counts two
\* conflicts, document 3 none
C17_Witness ==
    /\ gInput.done
    /\ Len(gOutput.nodes) = 3
    /\ gInput.conflicts = <<GraphConflict(<<1, 2>>, "unresolved"),
                            GraphConflict(<<2, 1>>, "resolved")>>
    /\ gOutput.nodeConflictCounts[2] = 2
    /\ gOutput.nodeConflictCounts[3] = 0

(***************************************************************************)
(* Vocabulary of the claims about the viewport                             *)
(***************************************************************************)
\* the step is a wheel event with this deltaY at the pointer, the svg on screen
WheelStep(deltaY) == pointer' = pointer /\ handleWheel(pointer, ScreenCtm, deltaY)

\* the pointer in the coordinates of the svg
PointerInSvg == matrixTransformInverse(pointer, ScreenCtm)

\* the graph-space point that the transform t shows at p: (p - (x, y)) / k
GraphPointAt(p, t) ==
    [x |-> CoordOver(CoordMinus(Coord(p.x), t.x), t.k),
     y |-> CoordOver(CoordMinus(Coord(p.y), t.y), t.k)]

\* the step is a mouse move to another place
MoveStep ==
    /\ pointer' # pointer
    /\ viewEvents'.moves = viewEvents.moves + 1
    /\ handleMouseMove(pointer')

(***************************************************************************)
(* C18  Zoom toward the cursor: after a wheel event at the pointer p the   *)
(* graph-space point (p - (x,y))/k that was under p is still under p,      *)
(* (p - (x',y'))/k' = (p - (x,y))/k, also when the new scale was clamped.  *)
(***************************************************************************)
C18_ZoomTowardCursor ==
    [][\A deltaY \in WheelDeltas :
          WheelStep(deltaY) =>
              GraphPointAt(PointerInSvg, transform') = GraphPointAt(PointerInSvg, transform)
      ]_vars

\* the wheel was turned about the first pointer position until the scale
\* was clamped at 5; the translation has moved and the graph point under
\* the pointer is the one that was there at scale 1
C18_Witness ==
    /\ viewEvents.moves = 0
    /\ transform.k = Scale(1, 0)
    /\ transform.x # Coord(0)
    /\ GraphPointAt(PointerInSvg, transform)
           = [x |-> Coord(PointerInSvg.x), y |-> Coord(PointerInSvg.y)]

(***************************************************************************)
(* C19  Zoom clamp.  The scale stays within [0.2, 5] whatever the wheel,   *)
(* pan and hover events; a wheel event divides k by 1.1 when deltaY > 0    *)
(* and multiplies it by 1.1 otherwise, then clamps.                        *)
(***************************************************************************)
ScaleInRange(k) ==
    /\ Approx(k) >= Millionths \div 5
    /\ Approx(k) <= 5 * Millionths

\* k / 1.1 or k * 1.1, brought back to the bound it passed
ClampedTarget(k, deltaY) ==
    LET target == IF deltaY > 0 THEN <<k[1], k[2] - 1>> ELSE <<k[1], k[2] + 1>>
    IN  IF Approx(target) < Millionths \div 5 THEN Scale(-1, 0)
        ELSE IF Approx(target) > 5 * Millionths THEN Scale(1, 0)
        ELSE target

\* the wheel would take the scale out of [0.2, 5]
BeyondBound(k, deltaY) ==
    LET target == IF deltaY > 0 THEN <<k[1], k[2] - 1>> ELSE <<k[1], k[2] + 1>>
    IN  Approx(target) < Millionths \div 5 \/ Approx(target) > 5 * Millionths

\* the scale after a wheel event is the clamped quotient or product
ZoomStepRule(deltaY) == transform'.k = ClampedTarget(transform.k, deltaY)

\* C19 as stated: every zoom attempted beyond a bound leaves x, y and k
\* unchanged
C19_ZoomClamp ==
    /\ [](ScaleInRange(transform.k))
    /\ [][\A deltaY \in WheelDeltas :
             WheelStep(deltaY) =>
                 /\ ZoomStepRule(deltaY)
                 /\ BeyondBound(transform.k, deltaY) => transform' = transform
         ]_vars

\* C19 as amended: a zoom attempted beyond the bound at which k already is
\* leaves x, y and k unchanged; one attempted beyond a bound from inside the
\* range moves k to that bound
C19_ZoomClampAtBound ==
    /\ [](ScaleInRange(transform.k))
    /\ [][\A deltaY \in WheelDeltas :
             WheelStep(deltaY) =>
                 /\ ZoomStepRule(deltaY)
                 /\ BeyondBound(transform.k, deltaY) =>
                        IF transform.k \in {Scale(-1, 0), Scale(1, 0)}
                        THEN transform' = transform
                        ELSE /\ transform'.k \in {Scale(-1, 0), Scale(1, 0)}
                             /\ transform'.k # transform.k
         ]_vars

\* the scale is at its lower bound, after wheel events, a pan and a hover
C19_Witness ==
    /\ transform.k = Scale(-1, 0)
    /\ viewEvents.moves >= 1
    /\ viewEvents.wheels >= 1
    /\ isPanning
    /\ hoveredNodeId # NoNodeId

(***************************************************************************)
(* C20  Pan protocol: a mouse move while isPanning is false changes        *)
(* neither the transform nor the anchor; while panning it adds exactly the *)
(* pointer delta since the anchor to (x, y), moves the anchor to the       *)
(* pointer, and changes neither the scale k nor the hovered node.          *)
(***************************************************************************)
C20_PanProtocol ==
    [][MoveStep =>
          IF ~isPanning
          THEN transform' = transform /\ panStart' = panStart
          ELSE /\ CoordMinus(transform'.x, transform.x) = Coord(pointer'.x - panStart.x)
               /\ CoordMinus(transform'.y, transform.y) = Coord(pointer'.y - panStart.y)
               /\ panStart' = pointer'
               /\ transform'.k = transform.k
               /\ hoveredNodeId' = hoveredNodeId
               /\ isPanning'
      ]_vars

\* the mouse was pressed at the first pointer position and moved: the
\* translation is the pointer delta and the anchor is at the pointer
C20_Witness ==
    /\ viewEvents.moves = 1
    /\ isPanning
    /\ pointer # PointerStart
    /\ panStart = pointer
    /\ transform.k = ScaleOne
    /\ transform.x = Coord(pointer.x - PointerStart.x)
    /\ transform.y = Coord(pointer.y - PointerStart.y)

(***************************************************************************)
(* C21  Hover active set: while a node n is hovered the active set is      *)
(* exactly n and every node that shares an edge with n, as source or as    *)
(* target; while nothing is hovered there is no active set; the tooltip    *)
(* shown for n is its label and 'Total Conflicts: ' with the per-node      *)
(* conflict count of n.                                                    *)
(***************************************************************************)
\* the nodes that share an edge of the drawn graph with n
SharesEdgeWith(n) ==
    LET edges == viewGraph.edges
    IN  {m \in {documents[i].id : i \in DOMAIN documents}
                  \cup UNION {Range(conflicts[c].documentIds) : c \in DOMAIN conflicts} :
            \E e \in DOMAIN edges : {edges[e].source, edges[e].target} = {n, m}}

LabelOf(n) ==
    LET i == CHOOSE j \in DOMAIN documents : documents[j].id = n
    IN  documents[i].title

C21_HoverActiveSet ==
    IF hoveredNodeId = NoNodeId
    THEN ~activeNodeIds.hovering
    ELSE /\ activeNodeIds.hovering
         /\ activeNodeIds.ids = {hoveredNodeId} \cup SharesEdgeWith(hoveredNodeId)
         /\ tooltip.contentLines =
                <<LabelOf(hoveredNodeId),
                  Cardinality({c \in DOMAIN conflicts :
                                  hoveredNodeId \in Range(conflicts[c].documentIds)})>>

\* the hovered node is the target of two edges: the active set holds the
\* source of each, and the tooltip counts both conflicts
C21_Witness ==
    /\ hoveredNodeId = 2
    /\ Len(documents) = 3
    /\ LET edges == viewGraph.edges
       IN  /\ \E e \in DOMAIN edges : edges[e].source = 1 /\ edges[e].target = 2
           /\ \E e \in DOMAIN edges : edges[e].source = 3 /\ edges[e].target = 2
    /\ activeNodeIds.ids = {1, 2, 3}
    /\ tooltip.contentLines = <<"B", 2>>

(***************************************************************************)
(* C30  Pan gestures telescope: after a mouse down at p0 and any number of *)
(* moves to p1, ..., pn with no mouse up in between, the translation is    *)
(* the translation at the mouse down plus (pn - p0), whatever the          *)
(* positions in between; a wheel event during the gesture adds only its    *)
(* own recentring: it leaves the anchor alone, and every later move of the *)
(* gesture still adds exactly the pointer's displacement.                  *)
(***************************************************************************)
C30_PanTelescopes ==
    /\ []((isPanning /\ viewEvents.gesture.wheels = 0) =>
            /\ transform.x = CoordPlus(viewEvents.gesture.x,
                                       Coord(pointer.x - viewEvents.gesture.p0.x))
            /\ transform.y = CoordPlus(viewEvents.gesture.y,
                                       Coord(pointer.y - viewEvents.gesture.p0.y)))
    /\ [][(isPanning /\ MoveStep) =>
            /\ CoordMinus(transform'.x, Coord(pointer'.x))
                   = CoordMinus(transform.x, Coord(pointer.x))
            /\ CoordMinus(transform'.y, Coord(pointer'.y))
                   = CoordMinus(transform.y, Coord(pointer.y))
         ]_vars
    /\ [][\A deltaY \in WheelDeltas :
            (isPanning /\ WheelStep(deltaY)) =>
                /\ panStart' = panStart
                /\ isPanning'
                /\ GraphPointAt(PointerInSvg, transform') = GraphPointAt(PointerInSvg, transform)
         ]_vars

\* a gesture of three moves that ends where it began, by two other places:
\* the translation is the one at its mouse down, which was not the initial one
C30_Witness ==
    /\ isPanning
    /\ viewEvents.moves = 3
    /\ viewEvents.gesture.wheels = 0
    /\ viewEvents.wheels >= 1
    /\ pointer = viewEvents.gesture.p0
    /\ transform.x = viewEvents.gesture.x
    /\ transform.x # Coord(0)

(***************************************************************************)
(* C24  Documents are never deleted and are mutated only by explicit save: *)
(* in every step the document list keeps its documents in their order,     *)
(* with their ids and titles, and only grows at its end; a content changes *)
(* only in a handleSaveDocument of that document's id; and                 *)
(* handleSaveDocument(id, content) replaces the content of the document    *)
(* with that id in full and changes no other document and no conflict.     *)
(***************************************************************************)
C24_DocumentsOnlySaved ==
    /\ [][/\ Len(documents') >= Len(documents)
          /\ \A i \in DOMAIN documents :
                /\ documents'[i].id = documents[i].id
                /\ documents'[i].title = documents[i].title
                /\ documents'[i].content # documents[i].content =>
                       \E content \in EditorContents :
                           handleSaveDocument(documents[i].id, content)
         ]_vars
    /\ [][\A d \in DOMAIN documents, content \in EditorContents :
             (lastOp'.op = "saveDocument" /\ handleSaveDocument(documents[d].id, content)) =>
                 /\ DOMAIN documents' = DOMAIN documents
                 /\ documents'[d] = [documents[d] EXCEPT !.content = content]
                 /\ \A j \in DOMAIN documents \ {d} : documents'[j] = documents[j]
                 /\ conflicts' = conflicts
         ]_vars

\* after an ingestion one of the four documents was saved: it alone has the
\* new content
C24_Witness ==
    /\ lastOp.op = "saveDocument"
    /\ Len(documents) = 4
    /\ Cardinality({i \in DOMAIN documents : documents[i].content = "edited"}) = 1
    /\ Len(conflicts) > 0

(***************************************************************************)
(* C25  In every reachable state the documentIds of each conflict are two  *)
(* distinct ids, each the id of a document of the store (the analyzer      *)
(* returning candidates that carry the ids of the two documents it was     *)
(* given), and no analysis run is under way for a pair of two equal ids.   *)
(***************************************************************************)
DocumentIds == {documents[i].id : i \in DOMAIN documents}

C25_DistinctExisting ==
    /\ \A c \in DOMAIN conflicts :
            /\ conflicts[c].documentIds[1] # conflicts[c].documentIds[2]
            /\ conflicts[c].documentIds[1] \in DocumentIds
            /\ conflicts[c].documentIds[2] \in DocumentIds
    /\ \A p \in DOMAIN run.pairs :
            /\ run.pairs[p][1].id # run.pairs[p][2].id
            /\ run.pairs[p][1].id \in DocumentIds
            /\ run.pairs[p][2].id \in DocumentIds

\* a conflict that a batch run found between a new document and an old one
\* is in the store while a pair run is under way
C25_Witness ==
    /\ run.pc = "analyzing"
    /\ run.mode = "pair"
    /\ \E c \in DOMAIN conflicts :
            /\ conflicts[c].id >= FirstFreshId
            /\ conflicts[c].documentIds[1] >= FirstFreshId
            /\ conflicts[c].documentIds[2] < FirstFreshId

(***************************************************************************)
(* C26  resolve changes only the status and the resolution of the one      *)
(* conflict whose id matches: that conflict's id, documentIds,             *)
(* documentTitles, excerpts, explanation and severity, every other         *)
(* conflict, the order and the length of the conflict list and the         *)
(* document store stay as they were; and no step changes the severity of   *)
(* a conflict that it keeps.                                               *)
(***************************************************************************)
\* the fields of a conflict that resolve is not to touch
FrameOf(c) ==
    [id |-> c.id, documentIds |-> c.documentIds, documentTitles |-> c.documentTitles,
     excerpts |-> c.excerpts, explanation |-> c.explanation, severity |-> c.severity]

C26_ResolveFrame ==
    /\ [][ResolveStep =>
            /\ DOMAIN conflicts' = DOMAIN conflicts
            /\ documents' = documents
            /\ \A i \in DOMAIN conflicts :
                   IF conflicts[i].id = lastOp'.conflictId
                   THEN FrameOf(conflicts'[i]) = FrameOf(conflicts[i])
                   ELSE conflicts'[i] = conflicts[i]
         ]_vars
    /\ [][\A i \in DOMAIN conflicts, j \in DOMAIN conflicts' :
            conflicts'[j].id = conflicts[i].id =>
                conflicts'[j].severity = conflicts[i].severity
         ]_vars

\* the seed conflict of severity High was ignored: it keeps its severity
\* and its place, and the other seed conflict is as it was
C26_Witness ==
    /\ lastOp.op = "resolve"
    /\ lastOp.conflictId = initialConflicts[1].id
    /\ Len(conflicts) = 2
    /\ conflicts[1].status = "ignored"
    /\ FrameOf(conflicts[1]) = FrameOf(initialConflicts[1])
    /\ conflicts[1].severity = "High"
    /\ conflicts[2] = initialConflicts[2]

(***************************************************************************)
(* C27  Every analysis_started event of the history is eventually          *)
(* followed, nearer the head of the log, by exactly one analysis_complete  *)
(* or analysis_error event of the same run: no run leaves an               *)
(* analysis_started without a closing event.                               *)
(***************************************************************************)
\* the places in the history of the events of run r of these types
PlacesOf(r, types) ==
    {i \in DOMAIN history : history[i].run = r /\ history[i].type \in types}

RunStarted(r) == PlacesOf(r, {"analysis_started"}) # {}

RunClosedOnce(r) ==
    LET closing == PlacesOf(r, {"analysis_complete", "analysis_error"})
    IN  /\ Cardinality(closing) = 1
        /\ \A i \in closing, j \in PlacesOf(r, {"analysis_started"}) : i < j

C27_StartedIsClosed ==
    \A r \in 1..MaxCalls : RunStarted(r) ~> RunClosedOnce(r)

(***************************************************************************)
(* C22  Snapshot loading is all-or-nothing: when the stored snapshot is    *)
(* malformed in any part (no JSON, no object, or one of documents,         *)
(* conflicts, history, userProfile, reportsGeneratedCount of the wrong     *)
(* shape) App starts from the defaults for every field; it never starts    *)
(* with some fields of the snapshot and the defaults for others.           *)
(***************************************************************************)
WellFormed(item) ==
    /\ item.item = "text"
    /\ item.json.t = "object"
    /\ item.json.o.documents.t = "array"
    /\ item.json.o.conflicts.t = "array"
    /\ item.json.o.history.t = "array"
    /\ item.json.o.userProfile.t = "object"
    /\ item.json.o.reportsGeneratedCount.t = "number"

StartedFromDefaults ==
    /\ documents = initialDocuments
    /\ conflicts = initialConflicts
    /\ history = <<>>
    /\ userProfile = defaultProfile
    /\ reportsGeneratedCount = 0

StartedFrom(item) ==
    /\ documents = valueOf(item.json.o.documents)
    /\ conflicts = valueOf(item.json.o.conflicts)
    /\ history = valueOf(item.json.o.history)
    /\ userProfile = valueOf(item.json.o.userProfile)
    /\ reportsGeneratedCount = valueOf(item.json.o.reportsGeneratedCount)

C22_AllOrNothing ==
    boot.mounted =>
        IF WellFormed(boot.item) THEN StartedFrom(boot.item) ELSE StartedFromDefaults

(***************************************************************************)
(* C23  Debounced persistence.  A pending write is always the write of the *)
(* current state (a change before it fires cancels it and sets a new       *)
(* one), so nothing older than the latest state is ever written; a pending *)
(* write fires in the end, and when the last one succeeded the persisted   *)
(* snapshot is the current in-memory state; a write, failed or not,        *)
(* leaves the in-memory state as it was.                                   *)
(***************************************************************************)
WriteFires == saveTimer.pending /\ ~saveTimer'.pending

C23_DebouncedSave ==
    /\ [](saveTimer.pending => saveTimer.state = stateToSave)
    /\ []((~saveTimer.pending /\ saveTimer.logged = "none") =>
              storage = stringify(stateToSave))
    /\ [][storage' # storage => (WriteFires /\ storage' = stringify(stateToSave'))]_vars
    /\ [][WriteFires =>
              UNCHANGED <<documents, conflicts, history, userProfile, reportsGeneratedCount,
                          isAnalyzing, notification>>]_vars
    /\ saveTimer.pending ~> ~saveTimer.pending

\* a snapshot was written, two handler calls changed the state after it, and
\* the write that followed them succeeded: the snapshot is the current state
C23_Witness ==
    /\ ~saveTimer.pending
    /\ saveTimer.logged = "none"
    /\ lastOp.n = 2
    /\ Len(history) = 2
    /\ storage = stringify(stateToSave)

(***************************************************************************)
(* C28  Edge keying is injective on unordered pairs, for arbitrary         *)
(* document id strings: two conflicts have the same edge key only if they  *)
(* reference the same unordered pair of ids, so the builder makes one edge *)
(* per unordered pair with a conflict, and the unresolvedConflictCount of  *)
(* an edge counts the unresolved conflicts of its own pair only.           *)
(***************************************************************************)
C28_EdgeKeyInjective ==
    (gInput.done /\ Len(gInput.documents) > 0) =>
        LET cs == gInput.conflicts
            edges == gOutput.edges
        IN  /\ \A j, k \in DOMAIN cs :
                   edgeKey(cs[j].documentIds) = edgeKey(cs[k].documentIds) =>
                       Range(cs[j].documentIds) = Range(cs[k].documentIds)
            /\ Len(edges) = Cardinality(ConflictPairs(cs))
            /\ \A e \in DOMAIN edges :
                   edges[e].unresolvedConflictCount =
                       Cardinality(UnresolvedOf(cs, {edges[e].source, edges[e].target}))

(***************************************************************************)
(* The dashboard's count (App.tsx:345-348)                                 *)
(***************************************************************************)
\* conflicts.filter(c => c.status === 'unresolved').length
unresolvedConflictsCount(cs) ==
    Cardinality({k \in DOMAIN cs : cs[k].status = "unresolved"})

RECURSIVE SumOf(_, _)
\* the sum of count[x] over the x of a finite set
SumOf(count, S) ==
    IF S = {} THEN 0
    ELSE LET x == CHOOSE y \in S : TRUE
         IN  count[x] + SumOf(count, S \ {x})

\* every conflict references two distinct documents of the list
AllDistinctExisting(docs, cs) ==
    \A k \in DOMAIN cs :
        /\ cs[k].documentIds[1] # cs[k].documentIds[2]
        /\ Range(cs[k].documentIds) \subseteq {docs[i].id : i \in DOMAIN docs}

(***************************************************************************)
(* C29  Count consistency between views: for at least one document and any *)
(* conflicts, the unresolvedConflictCount of all the graph's edges add up  *)
(* to the number of unresolved conflicts, which is the dashboard's         *)
(* unresolvedConflictsCount; and when every conflict references two        *)
(* distinct documents of the list, the per-node conflict counts add up to  *)
(* twice the number of conflicts.                                          *)
(***************************************************************************)
C29_CountConsistency ==
    (gInput.done /\ Len(gInput.documents) > 0) =>
        LET cs == gInput.conflicts
            docs == gInput.documents
            edges == gOutput.edges
            counts == gOutput.nodeConflictCounts
        IN  /\ SumOf([e \in DOMAIN edges |-> edges[e].unresolvedConflictCount], DOMAIN edges)
                   = unresolvedConflictsCount(cs)
            /\ AllDistinctExisting(docs, cs) =>
                   SumOf(counts, DOMAIN counts) = 2 * Len(cs)

\* three conflicts of five documents, two of them unresolved, and these two
\* under one key: the edge counts add up to 2, the node counts to 6
C29_Witness ==
    /\ gInput.done
    /\ Len(gInput.documents) = 5
    /\ gInput.conflicts = <<GraphConflict(<<2, 1>>, "resolved"),
                            GraphConflict(<<4, 3>>, "unresolved"),
                            GraphConflict(<<1, 5>>, "unresolved")>>
    /\ Len(gOutput.edges) = 2
    /\ gOutput.edges[1].unresolvedConflictCount = 0
    /\ gOutput.edges[2].unresolvedConflictCount = 2
    /\ gOutput.nodeConflictCounts[1] = 2
    /\ gOutput.nodeConflictCounts[3] = 1

====
